---------------------------- MODULE Spec2Model ----------------------------
(***************************************************************************)
(* Pricing engine and persistence service of fluxinc/srs-pricing.          *)
(*                                                                         *)
(* The engine is a set of functions of the ambient CONFIG object and the   *)
(* scenario (monthlyRate, commitYears, contractYears, existingFleetUnits). *)
(* The JavaScript source computes in IEEE doubles; this development uses   *)
(* fixed-point integers:                                                   *)
(*   money      in cents                  (MS  = 100 per dollar)           *)
(*   fractions  in 1/10000                (FS  = 10000 is 1.0)             *)
(*   units      in 1/100 unit where the source allows fractional units     *)
(*   durations  in quarter years          (QY  = 4 per year)               *)
(* Every division rounds toward minus infinity unless the source rounds    *)
(* otherwise (Math.ceil, Math.round).                                      *)
(***************************************************************************)
EXTENDS Integers, Sequences, FiniteSets, TLC

VARIABLES
  cfg,     \* the ambient CONFIG object the engine reads
  op,      \* the engine function (or script step) that ran last
  args,    \* its arguments
  ret,     \* what it returned: [threw, value]
  prevRow, \* runSeriesCheck: the previous row of the running series
  server   \* the persistence service: its backend and what it has stored

vars == <<cfg, op, args, ret, prevRow, server>>

-----------------------------------------------------------------------------
(* Fixed-point scales *)

MS == 100
FS == 10000
US == 100
QY == 4

Max(a, b) == IF a >= b THEN a ELSE b
Min(a, b) == IF a <= b THEN a ELSE b

(* floor(a * b / c) for b >= 0, c > 0 without forming a * b *)
MulDiv(a, b, c) == (a \div c) * b + ((a % c) * b) \div c

(* floor(num * FS / den) for den > 0 by long division, two digits a step *)
FracDiv(num, den) ==
  LET q0 == num \div den
      r0 == num % den
      q1 == (r0 * 100) \div den
      r1 == (r0 * 100) % den
      q2 == (r1 * 100) \div den
  IN  q0 * FS + q1 * 100 + q2

(* Math.ceil(a / b) for b > 0 *)
CeilDiv(a, b) == -((-a) \div b)

(* an optional configuration value: absent, or one number *)
Undefined == {}
Some(v) == {v}
IsFinite(o) == o # {}
ValueOf(o) == CHOOSE v \in o : TRUE

-----------------------------------------------------------------------------
(* Math.log10(num / den) for num >= den > 0, in FS units.  Log10Table[i+1] *)
(* is 10^(i/40) in FS units; between two entries the logarithm is          *)
(* interpolated linearly, so the result is non-decreasing in num / den.    *)

Log10Table ==
  << 10000, 10593, 11221, 11886, 12590, 13336, 14126, 14963, 15849, 16789,
     17783, 18837, 19953, 21135, 22388, 23714, 25119, 26608, 28184, 29854,
     31623, 33497, 35482, 37584, 39811, 42170, 44669, 47316, 50119, 53089,
     56235, 59567, 63096, 66835, 70795, 74990, 79433, 84140, 89126, 94407,
     100000 >>

Log10Step == FS \div (Len(Log10Table) - 1)

RECURSIVE Decades(_, _)
Decades(num, den) == IF num >= den * 10 THEN 1 + Decades(num, den * 10) ELSE 0

RECURSIVE Pow10(_)
Pow10(k) == IF k = 0 THEN 1 ELSE 10 * Pow10(k - 1)

(* k decades, and mantissa m within segment i of the table *)
Log10Segment(k, m, i) ==
  k * FS + (i - 1) * Log10Step
    + ((m - Log10Table[i]) * Log10Step) \div (Log10Table[i + 1] - Log10Table[i])

Log10Mantissa(k, m) ==
  Log10Segment(k, m, CHOOSE j \in 1..(Len(Log10Table) - 1) :
                       Log10Table[j] <= m /\ m < Log10Table[j + 1])

Log10Decades(k, num, den) == Log10Mantissa(k, FracDiv(num, den * Pow10(k)))

Log10(num, den) == Log10Decades(Decades(num, den), num, den)

(* Math.pow(b, n) for a fraction b in FS units and an integer n >= 0 *)
RECURSIVE Pow(_, _)
Pow(b, n) == IF n = 0 THEN FS ELSE MulDiv(Pow(b, n - 1), b, FS)


-----------------------------------------------------------------------------
(* CONFIG (config.js).  Money in cents, fractions in FS units, hours and   *)
(* units as plain integers.  contractDiscounts is the object literal: a    *)
(* function from its keys to the configured fractions.                     *)

DefaultConfig ==
  [ hardware        |-> [ fluxBox |-> 95000, replacementCycleYears |-> 5 ],
    licensing       |-> [ year1List |-> Undefined, year2List |-> Undefined,
                          year1 |-> Some(190000), year2Plus |-> Some(29000),
                          year1Discount |-> Undefined,
                          year2Discount |-> Undefined ],
    labor           |-> [ hourlyRate |-> 7500, fteSalary |-> 6000000,
                          buildHoursPerUnit |-> 4,
                          supportHoursPerUnitYear |-> 8,
                          coordinationHoursPerUnit |-> 4 ],
    efficiency      |-> [ supportDecayRate |-> 9000, supportFloor |-> 6250 ],
    scaleEfficiency |-> [ scaleRefUnits |-> 100, scaleSlope |-> 3500,
                          scaleFloor |-> 6000 ],
    overhead        |-> [ devMaintenanceFTEs |-> 1,
                          additionalAnnualCost |-> 0 ],
    pricing         |-> [ listPriceYear1 |-> Undefined,
                          listPriceYear2 |-> Undefined,
                          year1FixedPrice |-> 240000,
                          year1ShiftFactor |-> 0,
                          margins |-> [ year2Plus |-> 2000 ],
                          overheadYear1Factor |-> 0,
                          overheadCreditEnabled |-> Undefined,
                          overheadCreditYears |-> Some(4 * QY),
                          year2BaselineYears |-> Some(10),
                          year2MinGap |-> 2000 ],
    discounts       |-> [ volumeTiers |->
                      << [ minUnits |-> Some(50000), discount |-> Some(2500) ],
                         [ minUnits |-> Some(36000), discount |-> Some(2000) ],
                         [ minUnits |-> Some(24000), discount |-> Some(1500) ],
                         [ minUnits |-> Some(12000), discount |-> Some(1000) ] >>,
                          year1VolumeFactor |-> 5000,
                          volumeDurationWeight |-> Some(2500) ],
    contractDiscounts |-> (1 :> 0 @@ 3 :> 200 @@ 5 :> 600 @@ 10 :> 700),
    fleet           |-> [ existingUnits |-> 0 ] ]

-----------------------------------------------------------------------------
(* COST CALCULATIONS (installed-base engine)                               *)
(* rate: units per month; dq: commitYears in quarter years; fleet: the     *)
(* optional existingFleetUnits argument.                                   *)

hardwareReserve(c) == c.hardware.fluxBox \div c.hardware.replacementCycleYears

resolveExistingFleet(c, fleet) ==
  IF IsFinite(fleet) THEN ValueOf(fleet) ELSE c.fleet.existingUnits

annualUnits(rate) == rate * 12

(* rate x 12 x commitYears, in US units *)
totalCommitment(rate, dq) == (rate * 12 * dq * US) \div QY

(* variant: the configured weight used as it is, not clamped to [0,1] *)
discountBasisUnitsUnclamped(c, rate, dq) ==
  LET annual  == annualUnits(rate)
      weight  == IF IsFinite(c.discounts.volumeDurationWeight)
                 THEN ValueOf(c.discounts.volumeDurationWeight) ELSE FS
  IN  MulDiv(annual * US, FS - weight, FS)
        + MulDiv((annual * dq * US) \div QY, weight, FS)

(* in US units *)
discountBasisUnits(c, rate, dq) ==
  LET annual  == annualUnits(rate)
      weight  == IF IsFinite(c.discounts.volumeDurationWeight)
                 THEN ValueOf(c.discounts.volumeDurationWeight) ELSE FS
      clamped == Max(0, Min(FS, weight))
  IN  MulDiv(annual * US, FS - clamped, FS)
        + MulDiv((annual * dq * US) \div QY, clamped, FS)

(* variant: the half-year ramp taken off after the commitment has ended    *)
(* instead of during it                                                    *)
avgInstalledBaseForYearRampLate(c, year, rate, dq, fleet) ==
  LET existing   == resolveExistingFleet(c, fleet)
      annual     == annualUnits(rate)
      unitsAdded == (annual * Min(year * QY, dq)) \div QY
      ramp       == IF year * QY > dq THEN annual \div 2 ELSE 0
  IN  Max(existing, existing + unitsAdded - ramp)

(* variant: the existing fleet taken off the units added instead of       *)
(* being added to them                                                     *)
avgInstalledBaseForYearNet(c, year, rate, dq, fleet) ==
  LET existing   == resolveExistingFleet(c, fleet)
      annual     == annualUnits(rate)
      unitsAdded == (annual * Min(year * QY, dq)) \div QY
      ramp       == IF year * QY <= dq THEN annual \div 2 ELSE 0
  IN  Max(existing, unitsAdded - existing - ramp)

avgInstalledBaseForYear(c, year, rate, dq, fleet) ==
  LET existing   == resolveExistingFleet(c, fleet)
      annual     == annualUnits(rate)
      unitsAdded == (annual * Min(year * QY, dq)) \div QY
      ramp       == IF year * QY <= dq THEN annual \div 2 ELSE 0
  IN  Max(existing, existing + unitsAdded - ramp)

(* in FS units *)
scaleFactor(c, installBase) ==
  LET se == c.scaleEfficiency
  IN  IF installBase <= 0 \/ installBase <= se.scaleRefUnits THEN FS
      ELSE LET lg     == Log10(installBase, se.scaleRefUnits)
               factor == (FS * FS) \div (FS + MulDiv(se.scaleSlope, lg, FS))
           IN  Max(se.scaleFloor, Min(FS, factor))

(* variant: the decay applied without the support floor *)
supportHoursForYearNoFloor(c, year, rate, dq, fleet) ==
  LET base       == c.labor.supportHoursPerUnitYear
      timeFactor == Pow(c.efficiency.supportDecayRate, year - 1)
      avgBase    == avgInstalledBaseForYear(c, year, rate, dq, fleet)
  IN  MulDiv(MulDiv(base * FS, timeFactor, FS), scaleFactor(c, avgBase), FS)

(* hours per unit, in FS units *)
supportHoursForYear(c, year, rate, dq, fleet) ==
  LET base       == c.labor.supportHoursPerUnitYear
      timeFactor == Max(c.efficiency.supportFloor,
                        Pow(c.efficiency.supportDecayRate, year - 1))
      avgBase    == avgInstalledBaseForYear(c, year, rate, dq, fleet)
  IN  MulDiv(MulDiv(base * FS, timeFactor, FS), scaleFactor(c, avgBase), FS)

year1Cost(c, rate, dq, fleet) ==
  LET hardware     == c.hardware.fluxBox
      buildLabor   == c.labor.buildHoursPerUnit * c.labor.hourlyRate
      year1Support == MulDiv(supportHoursForYear(c, 1, rate, dq, fleet),
                             c.labor.hourlyRate, FS)
      coordination == c.labor.coordinationHoursPerUnit * c.labor.hourlyRate
  IN  hardware + buildLabor + year1Support + coordination

year2CostForYear(c, year, rate, dq, fleet) ==
  MulDiv(supportHoursForYear(c, year, rate, dq, fleet), c.labor.hourlyRate, FS)
    + hardwareReserve(c)

(* the loop of year2CostBlended: total over years yr..effectiveYears *)
RECURSIVE year2CostTotal(_, _, _, _, _, _)
year2CostTotal(c, yr, effectiveYears, rate, dq, fleet) ==
  IF yr > effectiveYears THEN 0
  ELSE year2CostForYear(c, yr, rate, dq, fleet)
         + year2CostTotal(c, yr + 1, effectiveYears, rate, dq, fleet)

year2CostBlended(c, contractYears, rate, dq, fleet) ==
  year2CostTotal(c, 2, Max(2, contractYears), rate, dq, fleet)
    \div (Max(2, contractYears) - 1)

annualOverhead(c) ==
  c.overhead.devMaintenanceFTEs * c.labor.fteSalary
    + c.overhead.additionalAnnualCost

overheadPerUnitForYear(c, year, rate, dq, fleet) ==
  LET avgBase == avgInstalledBaseForYear(c, year, rate, dq, fleet)
  IN  IF avgBase <= 0 THEN 0 ELSE annualOverhead(c) \div avgBase

(* the loop of overheadBlendedBase: total over years yr..effectiveYears *)
RECURSIVE overheadTotal(_, _, _, _, _, _)
overheadTotal(c, yr, effectiveYears, rate, dq, fleet) ==
  IF yr > effectiveYears THEN 0
  ELSE overheadPerUnitForYear(c, yr, rate, dq, fleet)
         + overheadTotal(c, yr + 1, effectiveYears, rate, dq, fleet)

overheadBlendedBase(c, contractYears, rate, dq, fleet) ==
  overheadTotal(c, 2, Max(2, contractYears), rate, dq, fleet)
    \div (Max(2, contractYears) - 1)

-----------------------------------------------------------------------------
(* VOLUME COMMITMENT CALCULATIONS                                          *)

(* value is an optional number; the result is a fraction in FS units *)
clamp01(value) ==
  IF ~IsFinite(value) THEN 0 ELSE Max(0, Min(FS, ValueOf(value)))

(* Math.round of a US-scaled number, as a whole number of units *)
Round(x) == (x + US \div 2) \div US

(* Array.prototype.sort by minUnits (stable insertion sort) *)
RECURSIVE InsertTier(_, _)
InsertTier(sorted, tier) ==
  IF sorted = << >> THEN << tier >>
  ELSE IF Head(sorted).minUnits <= tier.minUnits
       THEN << Head(sorted) >> \o InsertTier(Tail(sorted), tier)
       ELSE << tier >> \o sorted

RECURSIVE SortTiers(_)
SortTiers(tiers) ==
  IF tiers = << >> THEN << >>
  ELSE InsertTier(SortTiers(SubSeq(tiers, 1, Len(tiers) - 1)),
                  tiers[Len(tiers)])

(* variant: of the tiers with equal minUnits the one sorted last is kept *)
RECURSIVE DedupeTiersLast(_, _)
DedupeTiersLast(deduped, rest) ==
  IF rest = << >> THEN deduped
  ELSE LET tier == Head(rest)
           n    == Len(deduped)
       IN  IF n > 0 /\ deduped[n].minUnits = tier.minUnits
           THEN DedupeTiersLast(
                  [deduped EXCEPT ![n].discount = tier.discount],
                  Tail(rest))
           ELSE DedupeTiersLast(Append(deduped, tier), Tail(rest))

(* the dedupe loop: equal minUnits collapse to the larger discount *)
RECURSIVE DedupeTiers(_, _)
DedupeTiers(deduped, rest) ==
  IF rest = << >> THEN deduped
  ELSE LET tier == Head(rest)
           n    == Len(deduped)
       IN  IF n > 0 /\ deduped[n].minUnits = tier.minUnits
           THEN DedupeTiers(
                  [deduped EXCEPT ![n].discount = Max(@, tier.discount)],
                  Tail(rest))
           ELSE DedupeTiers(Append(deduped, tier), Tail(rest))

(* the final loop: a discount below its predecessor is raised to it *)
RECURSIVE RaiseTiers(_, _)
RaiseTiers(tiers, prev) ==
  IF tiers = << >> THEN << >>
  ELSE LET d == Max(Head(tiers).discount, prev)
       IN  << [Head(tiers) EXCEPT !.discount = d] >>
             \o RaiseTiers(Tail(tiers), d)

(* raw tiers carry optional numbers: minUnits in US units, discount in FS *)
CleanTiers(raw) ==
  LET finite == SelectSeq(raw, LAMBDA t : IsFinite(t.minUnits)
                                          /\ IsFinite(t.discount))
  IN  [ i \in 1..Len(finite) |->
          [ minUnits |-> Max(0, Round(ValueOf(finite[i].minUnits))) * US,
            discount |-> clamp01(finite[i].discount) ] ]

(* the implicit zero point: pushed unless some tier has minUnits 0 *)
WithZeroTier(cleaned) ==
  IF \E i \in 1..Len(cleaned) : cleaned[i].minUnits = 0
  THEN cleaned
  ELSE Append(cleaned, [ minUnits |-> 0, discount |-> 0 ])

(* variant: normalizeVolumeTiers without the final monotonic pass *)
normalizeVolumeTiersUnraised(c) ==
  DedupeTiers(<< >>, SortTiers(WithZeroTier(CleanTiers(c.discounts.volumeTiers))))

normalizeVolumeTiers(c) ==
  RaiseTiers(DedupeTiers(<< >>,
               SortTiers(WithZeroTier(CleanTiers(c.discounts.volumeTiers)))), 0)

(* variant: a step lookup, the discount of the last tier reached *)
InterpolateTiersStep(tiers, units) ==
  LET n == Len(tiers)
      reached == { i \in 1..n : tiers[i].minUnits <= units }
  IN  IF n = 0 THEN 0
      ELSE IF reached = {} THEN clamp01(Some(tiers[1].discount))
      ELSE clamp01(Some(tiers[CHOOSE i \in reached :
                                 \A j \in reached : j <= i].discount))

(* the interpolation loop over normalized tiers; units in US units *)
InterpolateTiers(tiers, units) ==
  LET n == Len(tiers)
      Hit(i) == units >= tiers[i].minUnits /\ units <= tiers[i + 1].minUnits
      Between(lower, upper) ==
        IF upper.minUnits - lower.minUnits <= 0
        THEN clamp01(Some(upper.discount))
        ELSE clamp01(Some(lower.discount
               + MulDiv(upper.discount - lower.discount,
                        units - lower.minUnits,
                        upper.minUnits - lower.minUnits)))
      First(i) == Between(tiers[i], tiers[i + 1])
  IN  IF n = 0 THEN 0
      ELSE IF units <= tiers[1].minUnits THEN clamp01(Some(tiers[1].discount))
      ELSE IF \E i \in 1..(n - 1) : Hit(i)
      THEN First(CHOOSE j \in 1..(n - 1) :
                   Hit(j) /\ \A k \in 1..(j - 1) : ~Hit(k))
      ELSE clamp01(Some(tiers[n].discount))

(* totalUnits is an optional number in US units *)
volumeDiscount(c, totalUnits) ==
  InterpolateTiers(normalizeVolumeTiers(c),
                   IF IsFinite(totalUnits) THEN Max(0, ValueOf(totalUnits))
                   ELSE 0)

(* getVolumeTier's loop over the normalized tiers; maxUnits is optional:  *)
(* the last tier has maxUnits Infinity                                     *)
TierAt(tiers, units, discount) ==
  LET n == Len(tiers)
      Within(i) == units >= tiers[i].minUnits /\ units < tiers[i + 1].minUnits
  IN  IF n = 0
      THEN [ minUnits |-> 0, maxUnits |-> Undefined, discount |-> 0 ]
      ELSE IF \E i \in 1..(n - 1) : Within(i)
      THEN LET j == CHOOSE k \in 1..(n - 1) :
                      Within(k) /\ \A l \in 1..(k - 1) : ~Within(l)
           IN  [ minUnits |-> tiers[j].minUnits,
                 maxUnits |-> Some(tiers[j + 1].minUnits - US),
                 discount |-> discount ]
      ELSE [ minUnits |-> tiers[n].minUnits, maxUnits |-> Undefined,
             discount |-> discount ]

getVolumeTier(c, totalUnits) ==
  TierAt(normalizeVolumeTiers(c),
         IF IsFinite(totalUnits) THEN Max(0, ValueOf(totalUnits)) ELSE 0,
         volumeDiscount(c, totalUnits))

(* variant: the zero point pushed onto, and the sort run on, the array of *)
(* CONFIG itself                                                           *)
volumeTiersAfterInPlace(c) ==
  LET sorted == SortTiers(WithZeroTier(CleanTiers(c.discounts.volumeTiers)))
  IN  [ i \in 1..Len(sorted) |->
          [ minUnits |-> Some(sorted[i].minUnits),
            discount |-> Some(sorted[i].discount) ] ]

(* CONFIG.discounts.volumeTiers after normalizeVolumeTiers has run: map    *)
(* and filter return a new array of new objects, push and sort act on that *)
(* array, and the two loops write to the copies pushed onto deduped, so    *)
(* the configured array and its tiers are as before                        *)
volumeTiersAfter(c) == c.discounts.volumeTiers

(* CONFIG after an engine call.  The only writes of the engine are those   *)
(* of normalizeVolumeTiers and, in year2Price, the sort of the array that  *)
(* Object.keys returns and the fills of a local Map and object             *)
configAfterCall(c) ==
  [c EXCEPT !.discounts.volumeTiers = volumeTiersAfter(c)]

(* variant: the discount of the longest configured term not above the     *)
(* requested one, as a tier lookup would give                              *)
contractDiscountTiered(c, contractYears) ==
  LET below == { y \in DOMAIN c.contractDiscounts : y <= contractYears }
  IN  IF below = {} THEN 0
      ELSE c.contractDiscounts[CHOOSE y \in below : \A z \in below : z <= y]

(* CONFIG.contractDiscounts[contractYears] || 0 *)
contractDiscount(c, contractYears) ==
  LET found == IF contractYears \in DOMAIN c.contractDiscounts
               THEN Some(c.contractDiscounts[contractYears]) ELSE Undefined
  IN  IF ~IsFinite(found) \/ ValueOf(found) = 0 THEN 0 ELSE ValueOf(found)

-----------------------------------------------------------------------------
(* PRICE CALCULATIONS                                                      *)

RoundingIncrement == 10 * MS

roundUp10(value) == CeilDiv(value, RoundingIncrement) * RoundingIncrement

licenseListYear1(c) ==
  IF IsFinite(c.licensing.year1List) THEN ValueOf(c.licensing.year1List)
  ELSE IF IsFinite(c.licensing.year1) THEN ValueOf(c.licensing.year1) ELSE 0

licenseListYear2(c) ==
  IF IsFinite(c.licensing.year2List) THEN ValueOf(c.licensing.year2List)
  ELSE IF IsFinite(c.licensing.year2Plus) THEN ValueOf(c.licensing.year2Plus)
  ELSE 0

licenseDiscountYear1(c) == clamp01(c.licensing.year1Discount)

licenseDiscountYear2(c) == clamp01(c.licensing.year2Discount)

licensePriceYear1(c) ==
  MulDiv(licenseListYear1(c), FS - licenseDiscountYear1(c), FS)

licensePriceYear2(c) ==
  MulDiv(licenseListYear2(c), FS - licenseDiscountYear2(c), FS)

year1BasePrice(c, rate, dq) ==
  LET discountUnits == discountBasisUnits(c, rate, dq)
      volumeDisc == MulDiv(volumeDiscount(c, Some(discountUnits)),
                           c.discounts.year1VolumeFactor, FS)
  IN  roundUp10(MulDiv(c.pricing.year1FixedPrice, FS - volumeDisc, FS))

year1ShiftAmount(c, rate, dq) ==
  LET base   == year1BasePrice(c, rate, dq)
      factor == c.pricing.year1ShiftFactor
  IN  MulDiv(base, Max(0, Min(FS, factor)), FS)

year1ShiftPerYear(c, rate, dq, contractYears) ==
  IF contractYears <= 1 THEN 0
  ELSE year1ShiftAmount(c, rate, dq) \div (contractYears - 1)

(* variant: the contract discount taken off the Year-1 base as well *)
year1PriceWithContract(c, rate, dq, contractYears, fleet) ==
  LET basePrice    == MulDiv(year1BasePrice(c, rate, dq),
                             FS - contractDiscount(c, contractYears), FS)
      shiftAmount  == year1ShiftAmount(c, rate, dq)
      shiftedPrice == Max(0, basePrice - shiftAmount)
      license      == licensePriceYear1(c)
  IN  roundUp10(shiftedPrice + license)

year1Price(c, rate, dq, contractYears, fleet) ==
  LET basePrice    == year1BasePrice(c, rate, dq)
      shiftAmount  == year1ShiftAmount(c, rate, dq)
      shiftedPrice == Max(0, basePrice - shiftAmount)
      license      == licensePriceYear1(c)
  IN  roundUp10(shiftedPrice + license)

year1TotalDiscount(c, rate, dq, contractYears) ==
  MulDiv(volumeDiscount(c, Some(discountBasisUnits(c, rate, dq))),
         c.discounts.year1VolumeFactor, FS)

(* variant: the surplus spread over min(contractYears - 1, creditCap)      *)
(* years, however short                                                    *)
CreditedOverheadUnguarded(c, contractYears, base, y1Price, y1Cost, y1Overhead) ==
  LET surplus == Max(0, y1Price - y1Cost - y1Overhead)
      creditCapRaw == c.pricing.overheadCreditYears
      creditCap ==
        IF IsFinite(creditCapRaw) /\ ValueOf(creditCapRaw) > 0
        THEN ValueOf(creditCapRaw) ELSE (contractYears - 1) * QY
      creditYears == Min((contractYears - 1) * QY, creditCap)
      creditPerYear == (surplus * QY) \div creditYears
  IN  IF c.pricing.overheadCreditEnabled = Some(FALSE) THEN base
      ELSE IF contractYears <= 1 THEN base
      ELSE Max(0, base - creditPerYear)

(* the surplus-credit branch of overheadBlended; overheadCreditYears,      *)
(* creditCap and creditYears are in quarter-years                          *)
CreditedOverhead(c, contractYears, base, y1Price, y1Cost, y1Overhead) ==
  LET surplus == Max(0, y1Price - y1Cost - y1Overhead)
      creditCapRaw == c.pricing.overheadCreditYears
      creditCap ==
        IF IsFinite(creditCapRaw) /\ ValueOf(creditCapRaw) > 0
        THEN ValueOf(creditCapRaw) ELSE (contractYears - 1) * QY
      creditYears == Max(QY, Min((contractYears - 1) * QY, creditCap))
      creditPerYear == (surplus * QY) \div creditYears
  IN  IF c.pricing.overheadCreditEnabled = Some(FALSE) THEN base
      ELSE IF contractYears <= 1 THEN base
      ELSE Max(0, base - creditPerYear)

overheadBlended(c, contractYears, rate, dq, fleet) ==
  CreditedOverhead(c, contractYears,
    overheadBlendedBase(c, contractYears, rate, dq, fleet),
    year1Price(c, rate, dq, contractYears, fleet),
    year1Cost(c, rate, dq, fleet),
    MulDiv(overheadPerUnitForYear(c, 1, rate, dq, fleet),
           c.pricing.overheadYear1Factor, FS))

baselineYears(c) ==
  Max(2, IF IsFinite(c.pricing.year2BaselineYears)
         THEN ValueOf(c.pricing.year2BaselineYears) ELSE 10)

(* the local minNetPrice of year2ListPrice *)
minNetPrice(c, rate, dq, fleet) ==
  LET cost     == year2CostBlended(c, baselineYears(c), rate, dq, fleet)
      overhead == overheadBlended(c, baselineYears(c), rate, dq, fleet)
  IN  MulDiv(cost + overhead, FS + c.pricing.margins.year2Plus, FS)

(* variant: the list price built from the requested contract length *)
year2ListPriceRequested(c, rate, dq, contractYears, fleet) ==
  LET years        == Max(2, contractYears)
      cost         == year2CostBlended(c, years, rate, dq, fleet)
      overhead     == overheadBlended(c, years, rate, dq, fleet)
      net          == MulDiv(cost + overhead,
                             FS + c.pricing.margins.year2Plus, FS)
      baselineDisc == contractDiscount(c, years)
      denom        == Max(FS \div 100, FS - baselineDisc)
  IN  MulDiv(net, FS, denom)

year2ListPrice(c, rate, dq, contractYears, fleet) ==
  LET baselineDisc == contractDiscount(c, baselineYears(c))
      denom        == Max(FS \div 100, FS - baselineDisc)
  IN  MulDiv(minNetPrice(c, rate, dq, fleet), FS, denom)

(* the local basePrice of year2PriceRaw *)
year2BasePrice(c, rate, dq, contractYears, fleet) ==
  LET listPrice    == year2ListPrice(c, rate, dq, contractYears, fleet)
      volumeDisc   == volumeDiscount(c, Some(discountBasisUnits(c, rate, dq)))
      contractDisc == contractDiscount(c, contractYears)
      totalDisc    == volumeDisc + contractDisc
  IN  roundUp10(MulDiv(listPrice, FS - totalDisc, FS))

year2PriceRaw(c, rate, dq, contractYears, fleet) ==
  year2BasePrice(c, rate, dq, contractYears, fleet)
    + licensePriceYear2(c)
    + year1ShiftPerYear(c, rate, dq, contractYears)

(* Object.keys(contractDiscounts).map(Number).filter(y > 1).sort() *)
RECURSIVE SortedSeq(_)
SortedSeq(S) ==
  IF S = {} THEN << >>
  ELSE LET m == CHOOSE x \in S : \A y \in S : x <= y
       IN  << m >> \o SortedSeq(S \ {m})

contractTerms(c) == SortedSeq({ y \in DOMAIN c.contractDiscounts : y > 1 })

(* one pass of the loop: the first term walked keeps its raw price *)
Adjusted(raw, prevAdjusted, minGap) ==
  IF ~IsFinite(prevAdjusted) THEN raw
  ELSE Max(raw, ValueOf(prevAdjusted) + minGap)

(* variant: the loop without the "+ minGap" *)
RECURSIVE adjustedByTermNoGap(_, _, _, _, _, _)
adjustedByTermNoGap(c, terms, i, rate, dq, fleet) ==
  Adjusted(year2PriceRaw(c, rate, dq, terms[i], fleet),
           IF i = Len(terms) THEN Undefined
           ELSE Some(adjustedByTermNoGap(c, terms, i + 1, rate, dq, fleet)),
           0)

(* the loop from the longest term down: adjustedByTerm[terms[i]] *)
RECURSIVE adjustedByTerm(_, _, _, _, _, _)
adjustedByTerm(c, terms, i, rate, dq, fleet) ==
  Adjusted(year2PriceRaw(c, rate, dq, terms[i], fleet),
           IF i = Len(terms) THEN Undefined
           ELSE Some(adjustedByTerm(c, terms, i + 1, rate, dq, fleet)),
           c.pricing.year2MinGap)

(* position of a contract length among the terms, 0 if it is not one *)
TermIndex(terms, contractYears) ==
  IF \E i \in 1..Len(terms) : terms[i] = contractYears
  THEN CHOOSE j \in 1..Len(terms) : terms[j] = contractYears
  ELSE 0

(* variant: the adjusted price returned without the final roundUp10 *)
year2PriceUnrounded(c, rate, dq, contractYears, fleet) ==
  IF c.pricing.year2MinGap <= 0
       \/ TermIndex(contractTerms(c), contractYears) = 0
  THEN year2PriceRaw(c, rate, dq, contractYears, fleet)
  ELSE adjustedByTerm(c, contractTerms(c),
                      TermIndex(contractTerms(c), contractYears),
                      rate, dq, fleet)

year2Price(c, rate, dq, contractYears, fleet) ==
  roundUp10(
    IF c.pricing.year2MinGap <= 0
         \/ TermIndex(contractTerms(c), contractYears) = 0
    THEN year2PriceRaw(c, rate, dq, contractYears, fleet)
    ELSE adjustedByTerm(c, contractTerms(c),
                        TermIndex(contractTerms(c), contractYears),
                        rate, dq, fleet))

year2TotalDiscount(c, rate, dq, contractYears) ==
  volumeDiscount(c, Some(discountBasisUnits(c, rate, dq)))
    + contractDiscount(c, contractYears)

contractPrice(c, rate, dq, contractYears, fleet) ==
  LET y1 == year1Price(c, rate, dq, contractYears, fleet)
      y2 == year2Price(c, rate, dq, contractYears, fleet)
  IN  y1 + y2 * Max(0, contractYears - 1)

-----------------------------------------------------------------------------
(* MARGIN CALCULATIONS                                                     *)

(* num / den as an optional fraction in FS units: a zero denominator gives *)
(* NaN or an infinity, which is not a finite number                        *)
Divide(num, den) ==
  IF den = 0 THEN Undefined
  ELSE IF den > 0 THEN Some(FracDiv(num, den))
  ELSE Some(FracDiv(-num, -den))

(* (price - cost - overhead) / price *)
Margin(price, cost, overhead) == Divide(price - cost - overhead, price)

year2MarginWithOverhead(c, rate, dq, contractYears, fleet) ==
  Margin(year2Price(c, rate, dq, contractYears, fleet),
         year2CostBlended(c, contractYears, rate, dq, fleet),
         overheadBlended(c, contractYears, rate, dq, fleet))

year1Margin(c, rate, dq, contractYears, fleet) ==
  Margin(year1Price(c, rate, dq, contractYears, fleet),
         year1Cost(c, rate, dq, fleet),
         MulDiv(overheadPerUnitForYear(c, 1, rate, dq, fleet),
                c.pricing.overheadYear1Factor, FS))

year2Margin(c, rate, dq, contractYears, fleet) ==
  Margin(year2Price(c, rate, dq, contractYears, fleet),
         year2CostBlended(c, contractYears, rate, dq, fleet),
         0)

(* variant: the later years' cost and overhead counted contractYears times *)
contractMarginAllYears(c, rate, dq, contractYears, fleet) ==
  Margin(contractPrice(c, rate, dq, contractYears, fleet),
         year1Cost(c, rate, dq, fleet)
           + contractYears
               * year2CostBlended(c, contractYears, rate, dq, fleet),
         MulDiv(overheadPerUnitForYear(c, 1, rate, dq, fleet),
                c.pricing.overheadYear1Factor, FS)
           + contractYears
               * overheadBlended(c, contractYears, rate, dq, fleet))

(* (price - totalCost) / price, the later years weighted by their number *)
contractMargin(c, rate, dq, contractYears, fleet) ==
  Margin(contractPrice(c, rate, dq, contractYears, fleet),
         year1Cost(c, rate, dq, fleet)
           + Max(0, contractYears - 1)
               * year2CostBlended(c, contractYears, rate, dq, fleet),
         MulDiv(overheadPerUnitForYear(c, 1, rate, dq, fleet),
                c.pricing.overheadYear1Factor, FS)
           + Max(0, contractYears - 1)
               * overheadBlended(c, contractYears, rate, dq, fleet))

-----------------------------------------------------------------------------
(* Configurations the pricing queries run against.  config.js is meant to  *)
(* be edited; the variants change the values named in their definitions.   *)

(* year2MinGap below the rounding increment, license not a multiple of it *)
SmallGapConfig ==
  [DefaultConfig EXCEPT !.pricing.year2MinGap = 500,
                        !.licensing.year2Plus = Some(29500)]

(* minimum-gap enforcement switched off *)
NoGapConfig == [DefaultConfig EXCEPT !.pricing.year2MinGap = 0]

(* half of the Year-1 base price shifted into the later contract years *)
ShiftConfig == [DefaultConfig EXCEPT !.pricing.year1ShiftFactor = FS \div 2]

PricingConfigs == { DefaultConfig, SmallGapConfig, NoGapConfig, ShiftConfig }

(* Scenario inputs of the pricing queries *)
MaxRate == 10
MaxCommitYears == 5
MaxContractYears == 10
MaxFleetSteps == 2

Rates == 1..MaxRate
CommitQs == { QY * y : y \in 1..MaxCommitYears }
ContractLengths == 1..MaxContractYears
(* the existingFleetUnits argument: omitted, or a multiple of 100 units *)
Fleets == { Undefined } \cup { Some(100 * k) : k \in 0..MaxFleetSteps }

Scenario(rate, dq, contractYears, fleet) ==
  [ rate |-> rate, dq |-> dq, contractYears |-> contractYears,
    fleet |-> fleet ]

(* the engine has no throw statement: every call returns a value *)
Returned(v) == [ threw |-> FALSE, value |-> v ]

NoArgs == << >>
NoRow == Undefined
(* the engine runs in the browser and in the script: no service involved *)
NoServer == << >>

-----------------------------------------------------------------------------
(* Pricing queries: one action per engine function.  The engine is         *)
(* synchronous: a caller makes one call at a time ("idle" between calls).  *)

Idle ==
  /\ op = "idle"
  /\ args = NoArgs
  /\ ret = Returned(0)
  /\ prevRow = NoRow

Init ==
  /\ cfg \in PricingConfigs
  /\ Idle
  /\ server = NoServer

(* the caller has taken the result *)
Return ==
  /\ op # "idle"
  /\ op' = "idle"
  /\ args' = NoArgs
  /\ ret' = Returned(0)
  /\ prevRow' = NoRow
  /\ UNCHANGED cfg
  /\ UNCHANGED server

Year1Price(rate, dq, contractYears, fleet) ==
  /\ op = "idle"
  /\ op' = "year1Price"
  /\ args' = Scenario(rate, dq, contractYears, fleet)
  /\ ret' = Returned(year1Price(cfg, rate, dq, contractYears, fleet))
  /\ cfg' = configAfterCall(cfg)
  /\ UNCHANGED prevRow
  /\ UNCHANGED server

Year2Price(rate, dq, contractYears, fleet) ==
  /\ op = "idle"
  /\ op' = "year2Price"
  /\ args' = Scenario(rate, dq, contractYears, fleet)
  /\ ret' = Returned(year2Price(cfg, rate, dq, contractYears, fleet))
  /\ cfg' = configAfterCall(cfg)
  /\ UNCHANGED prevRow
  /\ UNCHANGED server

ContractPrice(rate, dq, contractYears, fleet) ==
  /\ op = "idle"
  /\ op' = "contractPrice"
  /\ args' = Scenario(rate, dq, contractYears, fleet)
  /\ ret' = Returned(contractPrice(cfg, rate, dq, contractYears, fleet))
  /\ cfg' = configAfterCall(cfg)
  /\ UNCHANGED prevRow
  /\ UNCHANGED server

ContractDiscount(contractYears) ==
  /\ op = "idle"
  /\ op' = "contractDiscount"
  /\ args' = [ contractYears |-> contractYears ]
  /\ ret' = Returned(contractDiscount(cfg, contractYears))
  /\ cfg' = configAfterCall(cfg)
  /\ UNCHANGED prevRow
  /\ UNCHANGED server

Year2MarginWithOverhead(rate, dq, contractYears, fleet) ==
  /\ op = "idle"
  /\ op' = "year2MarginWithOverhead"
  /\ args' = Scenario(rate, dq, contractYears, fleet)
  /\ ret' = Returned(year2MarginWithOverhead(cfg, rate, dq, contractYears,
                                             fleet))
  /\ cfg' = configAfterCall(cfg)
  /\ UNCHANGED prevRow
  /\ UNCHANGED server

Next ==
  \/ \E rate \in Rates, dq \in CommitQs, contractYears \in ContractLengths,
        fleet \in Fleets :
       \/ Year1Price(rate, dq, contractYears, fleet)
       \/ Year2Price(rate, dq, contractYears, fleet)
       \/ ContractPrice(rate, dq, contractYears, fleet)
       \/ Year2MarginWithOverhead(rate, dq, contractYears, fleet)
  \/ \E contractYears \in ContractLengths : ContractDiscount(contractYears)
  \/ Return

Spec == Init /\ [][Next]_vars

-----------------------------------------------------------------------------
(* Properties of the pricing queries (checked under Spec)                  *)

ConfiguredLengths == DOMAIN cfg.contractDiscounts

(* the next longer key among a set of contract lengths, if any *)
LongerIn(S, y) == { z \in S : z > y }
NextLonger(S, y) ==
  CHOOSE z \in LongerIn(S, y) : \A w \in LongerIn(S, y) : z <= w

GapActive == cfg.pricing.year2MinGap > 0

Year2PriceOf(contractYears) ==
  year2Price(cfg, args.rate, args.dq, contractYears, args.fleet)

MultiYearLengths == { y \in ConfiguredLengths : y > 1 }

C3_LongerStrictlyCheaper ==
  ( /\ op = "year2Price"
    /\ GapActive
    /\ args.contractYears \in MultiYearLengths )
  => \A longer \in LongerIn(MultiYearLengths, args.contractYears) :
       Year2PriceOf(longer) < ret.value

(* C7: for a configured contract length the Year-2+ margin including       *)
(* overhead is at least the target margin minus a small epsilon.           *)
(* epsilon: half a percentage point *)
MarginEps == FS \div 200

C7_MarginFloor ==
  ( /\ op = "year2MarginWithOverhead"
    /\ args.contractYears \in ConfiguredLengths )
  => /\ IsFinite(ret.value)
     /\ ValueOf(ret.value) >= cfg.pricing.margins.year2Plus - MarginEps

(* C8: at the baseline contract length the discounted Year-2+ price before *)
(* license and shift add-ons is never below minNetPrice, and at shorter    *)
(* configured lengths it is at least as high as at the baseline.           *)
C8_BaselineFloor ==
  ( /\ op = "year2Price"
    /\ args.contractYears \in ConfiguredLengths
    /\ args.contractYears <= baselineYears(cfg) )
  => LET atBaseline == year2BasePrice(cfg, args.rate, args.dq,
                                      baselineYears(cfg), args.fleet)
         here == year2BasePrice(cfg, args.rate, args.dq, args.contractYears,
                                args.fleet)
     IN  /\ atBaseline >= minNetPrice(cfg, args.rate, args.dq, args.fleet)
         /\ here >= atBaseline

(* C9: contractDiscount returns exactly the configured fraction of a       *)
(* configured contract length and 0 for any other length.                  *)
C9_TableLookup ==
  op = "contractDiscount"
  => /\ ~ret.threw
     /\ ret.value = IF args.contractYears \in ConfiguredLengths
                    THEN cfg.contractDiscounts[args.contractYears] ELSE 0

C9_Witness ==
  /\ op = "contractDiscount"
  /\ args.contractYears \in ConfiguredLengths
  /\ ret.value = cfg.contractDiscounts[args.contractYears]
  /\ ret.value > 0

(* C10: a pricing query whose contract length is not a key of              *)
(* contractDiscounts is rejected with an error; no price or margin is      *)
(* returned for it.                                                        *)
PricingQueries ==
  { "year1Price", "year2Price", "contractPrice", "year2MarginWithOverhead" }

C10_UnconfiguredRejected ==
  ( /\ op \in PricingQueries
    /\ args.contractYears \notin ConfiguredLengths )
  => ret.threw

-----------------------------------------------------------------------------
(* Volume tiers: volumeDiscount over configured tier lists (SpecDiscount)  *)

(* tier entries as an operator may write them: thresholds in US units      *)
(* (negative, zero, 119.6 which rounds to 120, 240), discounts in FS units *)
(* (negative, 10%, above 100%), and entries with a non-numeric field       *)
TierEntries ==
  { [ minUnits |-> Some(m), discount |-> Some(d) ] :
      m \in { -1000, 0, 11960, 24000 }, d \in { -500, 1000, 12000 } }
    \cup { [ minUnits |-> Undefined, discount |-> Some(2500) ],
           [ minUnits |-> Some(12000), discount |-> Undefined ] }

MaxTiers == 2

TierLists == UNION { [ 1..n -> TierEntries ] : n \in 0..MaxTiers }

TierConfigs ==
  { DefaultConfig }
    \cup { [ DefaultConfig EXCEPT !.discounts.volumeTiers = t ] : t \in TierLists }

MaxUnitSteps == 13

(* the totalUnits argument: missing, negative, or a multiple of 40 units *)
UnitInputs == { Undefined } \cup { Some(4000 * k) : k \in (-1)..MaxUnitSteps }

InitDiscount ==
  /\ cfg \in TierConfigs
  /\ Idle
  /\ server = NoServer

VolumeDiscount(totalUnits) ==
  /\ op = "idle"
  /\ op' = "volumeDiscount"
  /\ args' = [ totalUnits |-> totalUnits ]
  /\ ret' = Returned(volumeDiscount(cfg, totalUnits))
  /\ cfg' = configAfterCall(cfg)
  /\ UNCHANGED prevRow
  /\ UNCHANGED server

NormalizeVolumeTiers ==
  /\ op = "idle"
  /\ op' = "normalizeVolumeTiers"
  /\ args' = NoArgs
  /\ ret' = Returned(normalizeVolumeTiers(cfg))
  /\ cfg' = configAfterCall(cfg)
  /\ UNCHANGED prevRow
  /\ UNCHANGED server

NextDiscount ==
  \/ \E totalUnits \in UnitInputs : VolumeDiscount(totalUnits)
  \/ NormalizeVolumeTiers
  \/ Return

SpecDiscount == InitDiscount /\ [][NextDiscount]_vars

(* the largest configured tier discount, clamped to [0,1] *)
maxTierDiscount(c) ==
  LET tiers == c.discounts.volumeTiers
      valid == { i \in 1..Len(tiers) :
                   IsFinite(tiers[i].minUnits) /\ IsFinite(tiers[i].discount) }
  IN  IF valid = {} THEN 0
      ELSE LET best == CHOOSE i \in valid :
                         \A j \in valid :
                           clamp01(tiers[j].discount) <= clamp01(tiers[i].discount)
           IN  clamp01(tiers[best].discount)

(* C1: for every configured list of volume tiers, volumeDiscount lies in   *)
(* [0, maxTierDiscount] and is non-decreasing in units: no larger number   *)
(* of units (u >= 0) gets a smaller discount.                              *)
C1_MonotoneBounded ==
  op = "volumeDiscount"
  => /\ ret.value >= 0
     /\ ret.value <= maxTierDiscount(cfg)
     /\ \A more \in UnitInputs :
          ( /\ IsFinite(args.totalUnits)
            /\ IsFinite(more)
            /\ ValueOf(args.totalUnits) >= 0
            /\ ValueOf(args.totalUnits) <= ValueOf(more) )
          => ret.value <= volumeDiscount(cfg, more)

(* tiers configured with a discount that falls as the threshold rises, and *)
(* a number of units strictly between two thresholds                       *)
C1_Witness ==
  /\ op = "volumeDiscount"
  /\ LET tiers == cfg.discounts.volumeTiers
     IN  \E i, j \in 1..Len(tiers) :
           /\ IsFinite(tiers[i].minUnits) /\ IsFinite(tiers[j].minUnits)
           /\ IsFinite(tiers[i].discount) /\ IsFinite(tiers[j].discount)
           /\ ValueOf(tiers[i].minUnits) < ValueOf(tiers[j].minUnits)
           /\ ValueOf(tiers[i].discount) > ValueOf(tiers[j].discount)
  /\ ret.value > 0
  /\ ret.value < maxTierDiscount(cfg)

-----------------------------------------------------------------------------
(* UTILITIES: the round-up functions (SpecRound)                           *)

(* variant: Math.round in place of Math.ceil *)
roundUp50Nearest(value) ==
  ((value + 10 * MS) \div (20 * MS)) * (20 * MS)

(* roundUp50 of the installed-base variant: Math.ceil(value / 20) * 20 *)
roundUp50(value) == CeilDiv(value, 20 * MS) * (20 * MS)

(* roundUp50 of the 2-layer engine: Math.ceil(value / 50) * 50 *)
TwoLayer_roundUp50(value) == CeilDiv(value, 50 * MS) * (50 * MS)

RoundUps == { "roundUp10", "roundUp50", "TwoLayer_roundUp50" }

ApplyRoundUp(name, value) ==
  CASE name = "roundUp10"          -> roundUp10(value)
    [] name = "roundUp50"          -> roundUp50(value)
    [] name = "TwoLayer_roundUp50" -> TwoLayer_roundUp50(value)

(* the increment each function rounds to, in cents *)
IncrementOf(name) ==
  CASE name = "roundUp10"          -> 10 * MS
    [] name = "roundUp50"          -> 20 * MS
    [] name = "TwoLayer_roundUp50" -> 50 * MS

MaxRoundSteps == 2020

(* dollar amounts from -$101.00 to $101.00 in steps of 5 cents *)
RoundInputs == { 5 * k : k \in (-MaxRoundSteps)..MaxRoundSteps }

InitRound ==
  /\ cfg = DefaultConfig
  /\ Idle
  /\ server = NoServer

RoundUp(name, value) ==
  /\ op = "idle"
  /\ op' = name
  /\ args' = [ value |-> value ]
  /\ ret' = Returned(ApplyRoundUp(name, value))
  /\ UNCHANGED <<cfg, prevRow>>
  /\ UNCHANGED server

(* the result rounded once more by the same function *)
RoundUpAgain ==
  /\ op \in RoundUps
  /\ args.value # ret.value
  /\ op' = op
  /\ args' = [ value |-> ret.value ]
  /\ ret' = Returned(ApplyRoundUp(op, ret.value))
  /\ UNCHANGED <<cfg, prevRow>>
  /\ UNCHANGED server

NextRound ==
  \/ \E name \in RoundUps, value \in RoundInputs : RoundUp(name, value)
  \/ RoundUpAgain
  \/ Return

SpecRound == InitRound /\ [][NextRound]_vars

(* C5: a round-up function r gives a multiple of its increment that is at  *)
(* least x and less than x + increment, and r(r(x)) = r(x).                *)
C5_RoundUp ==
  op \in RoundUps
  => /\ ret.value % IncrementOf(op) = 0
     /\ ret.value >= args.value
     /\ ret.value < args.value + IncrementOf(op)
     /\ ApplyRoundUp(op, ret.value) = ret.value

(* a value strictly between two multiples of $20 was rounded up by roundUp50 *)
C5_Witness ==
  /\ op = "roundUp50"
  /\ args.value % (20 * MS) # 0
  /\ ret.value > args.value

-----------------------------------------------------------------------------
(* The simplified 2-layer engine (SpecTwoLayer).  Its volume tiers are a   *)
(* step function read in configured order; totals are whole units.         *)

TwoLayerConfig ==
  [ prices    |-> [ baseline5yr |-> 980000, year2 |-> 155000 ],
    discounts |-> [ volumeTiers |->
                      << [ minUnits |-> 500, discount |-> 2500 ],
                         [ minUnits |-> 360, discount |-> 2000 ],
                         [ minUnits |-> 240, discount |-> 1500 ],
                         [ minUnits |-> 120, discount |-> 1000 ] >>,
                    year1VolumeFactor |-> 5000 ],
    contractDiscounts |-> (1 :> 0 @@ 3 :> 300 @@ 5 :> 500 @@ 10 :> 1800) ]

TwoLayer_year1Base(c) == c.prices.baseline5yr - 4 * c.prices.year2

TwoLayer_totalCommitment(rate, commitYears) == rate * 12 * commitYears

(* variant: the discount of the last tier reached, read in configured order *)
TwoLayer_volumeDiscountLast(c, totalUnits) ==
  LET tiers == c.discounts.volumeTiers
      hits  == { i \in 1..Len(tiers) : totalUnits >= tiers[i].minUnits }
  IN  IF hits = {} THEN 0
      ELSE tiers[CHOOSE i \in hits : \A j \in hits : j <= i].discount

(* the first tier, in configured order, whose minUnits is reached *)
TwoLayer_volumeDiscount(c, totalUnits) ==
  LET tiers == c.discounts.volumeTiers
      hits  == { i \in 1..Len(tiers) : totalUnits >= tiers[i].minUnits }
  IN  IF hits = {} THEN 0
      ELSE tiers[CHOOSE i \in hits : \A j \in hits : i <= j].discount

TwoLayer_contractDiscount(c, contractYears) ==
  IF contractYears \in DOMAIN c.contractDiscounts
  THEN c.contractDiscounts[contractYears] ELSE 0

TwoLayer_year1Price(c, rate, commitYears, contractYears) ==
  TwoLayer_roundUp50(
    MulDiv(TwoLayer_year1Base(c),
           FS - ( MulDiv(TwoLayer_volumeDiscount(c,
                           TwoLayer_totalCommitment(rate, commitYears)),
                         c.discounts.year1VolumeFactor, FS)
                  + TwoLayer_contractDiscount(c, contractYears) ),
           FS))

TwoLayer_year2Price(c, rate, commitYears, contractYears) ==
  TwoLayer_roundUp50(
    MulDiv(c.prices.year2,
           FS - ( TwoLayer_volumeDiscount(c,
                    TwoLayer_totalCommitment(rate, commitYears))
                  + TwoLayer_contractDiscount(c, contractYears) ),
           FS))

TwoLayer_contractPrice(c, rate, commitYears, contractYears) ==
  TwoLayer_year1Price(c, rate, commitYears, contractYears)
    + TwoLayer_year2Price(c, rate, commitYears, contractYears)
        * Max(0, contractYears - 1)

MaxTwoLayerRate == 20
MaxTwoLayerCommitYears == 5

TwoLayerRates == 1..MaxTwoLayerRate
TwoLayerCommitYears == 1..MaxTwoLayerCommitYears

TwoLayerScenario(rate, commitYears, contractYears) ==
  [ rate |-> rate, commitYears |-> commitYears, contractYears |-> contractYears ]

InitTwoLayer ==
  /\ cfg = TwoLayerConfig
  /\ Idle
  /\ server = NoServer

TwoLayerTotalCommitment(rate, commitYears) ==
  /\ op = "idle"
  /\ op' = "TwoLayer_totalCommitment"
  /\ args' = [ rate |-> rate, commitYears |-> commitYears ]
  /\ ret' = Returned(TwoLayer_totalCommitment(rate, commitYears))
  /\ UNCHANGED <<cfg, prevRow>>
  /\ UNCHANGED server

TwoLayerYear1Price(rate, commitYears, contractYears) ==
  /\ op = "idle"
  /\ op' = "TwoLayer_year1Price"
  /\ args' = TwoLayerScenario(rate, commitYears, contractYears)
  /\ ret' = Returned(TwoLayer_year1Price(cfg, rate, commitYears, contractYears))
  /\ UNCHANGED <<cfg, prevRow>>
  /\ UNCHANGED server

TwoLayerYear2Price(rate, commitYears, contractYears) ==
  /\ op = "idle"
  /\ op' = "TwoLayer_year2Price"
  /\ args' = TwoLayerScenario(rate, commitYears, contractYears)
  /\ ret' = Returned(TwoLayer_year2Price(cfg, rate, commitYears, contractYears))
  /\ UNCHANGED <<cfg, prevRow>>
  /\ UNCHANGED server

TwoLayerContractPrice(rate, commitYears, contractYears) ==
  /\ op = "idle"
  /\ op' = "TwoLayer_contractPrice"
  /\ args' = TwoLayerScenario(rate, commitYears, contractYears)
  /\ ret' = Returned(TwoLayer_contractPrice(cfg, rate, commitYears,
                                            contractYears))
  /\ UNCHANGED <<cfg, prevRow>>
  /\ UNCHANGED server

NextTwoLayer ==
  \/ \E rate \in TwoLayerRates, commitYears \in TwoLayerCommitYears :
       \/ TwoLayerTotalCommitment(rate, commitYears)
       \/ \E contractYears \in ContractLengths :
            \/ TwoLayerYear1Price(rate, commitYears, contractYears)
            \/ TwoLayerYear2Price(rate, commitYears, contractYears)
            \/ TwoLayerContractPrice(rate, commitYears, contractYears)
  \/ Return

SpecTwoLayer == InitTwoLayer /\ [][NextTwoLayer]_vars

(* the scenario of the worked example: 20 units a month for 5 years on a   *)
(* 5-year contract                                                         *)
ExampleScenario ==
  /\ args.rate = 20
  /\ args.commitYears = 5
  /\ "contractYears" \in DOMAIN args => args.contractYears = 5

(* C6: in the 2-layer engine contractPrice = year1Price + year2Price x     *)
(* (contractYears - 1), and rate 20, commitYears 5, contractYears 5 gives  *)
(* totalCommitment 1200, Year-1 price $3,000, Year-2+ price $1,100 and     *)
(* contract price $7,400.                                                  *)
C6_TwoLayerExample ==
  /\ op = "TwoLayer_contractPrice"
     => ret.value =
          TwoLayer_year1Price(cfg, args.rate, args.commitYears,
                              args.contractYears)
            + TwoLayer_year2Price(cfg, args.rate, args.commitYears,
                                  args.contractYears)
                * (args.contractYears - 1)
  /\ (op = "TwoLayer_totalCommitment" /\ ExampleScenario) => ret.value = 1200
  /\ (op = "TwoLayer_year1Price" /\ ExampleScenario) => ret.value = 3000 * MS
  /\ (op = "TwoLayer_year2Price" /\ ExampleScenario) => ret.value = 1100 * MS
  /\ (op = "TwoLayer_contractPrice" /\ ExampleScenario) => ret.value = 7400 * MS

C6_Witness ==
  /\ op = "TwoLayer_contractPrice"
  /\ ExampleScenario
  /\ ret.value = 7400 * MS

-----------------------------------------------------------------------------
(* The reporting script's series check (SpecSeries): rows of one series    *)
(* are computed in order and each is compared with the row before it.      *)

displayListYear1(c) ==
  IF IsFinite(c.pricing.listPriceYear1) /\ ValueOf(c.pricing.listPriceYear1) > 0
  THEN ValueOf(c.pricing.listPriceYear1)
  ELSE c.pricing.year1FixedPrice + licenseListYear1(c)

(* year2BaselineYears || 10: an absent or zero setting reads as 10 *)
displayListYear2(c, fleet) ==
  IF IsFinite(c.pricing.listPriceYear2) /\ ValueOf(c.pricing.listPriceYear2) > 0
  THEN ValueOf(c.pricing.listPriceYear2)
  ELSE year2ListPrice(c, 10, QY,
         IF IsFinite(c.pricing.year2BaselineYears)
              /\ ValueOf(c.pricing.year2BaselineYears) # 0
         THEN ValueOf(c.pricing.year2BaselineYears) ELSE 10,
         fleet)
       + licenseListYear2(c)

getDiscountBreakdown(c, rate, dq, contractYears, fleet) ==
  [ volume        |-> volumeDiscount(c, Some(discountBasisUnits(c, rate, dq))),
    volumeY1      |-> MulDiv(volumeDiscount(c,
                               Some(discountBasisUnits(c, rate, dq))),
                             c.discounts.year1VolumeFactor, FS),
    contract      |-> contractDiscount(c, contractYears),
    totalY1       |-> year1TotalDiscount(c, rate, dq, contractYears),
    totalY2       |-> year2TotalDiscount(c, rate, dq, contractYears),
    totalUnits    |-> totalCommitment(rate, dq),
    discountUnits |-> discountBasisUnits(c, rate, dq),
    overheadY1    |-> MulDiv(overheadPerUnitForYear(c, 1, rate, dq, fleet),
                             c.pricing.overheadYear1Factor, FS),
    overheadY2    |-> overheadBlended(c, contractYears, rate, dq, fleet),
    listY1        |-> displayListYear1(c),
    listY2        |-> displayListYear2(c, fleet) ]

(* list > 0 ? Math.max(0, 1 - price / list) : 0, in FS units *)
Effective(price, list) ==
  IF list > 0 THEN Max(0, FS - FracDiv(price, list)) ELSE 0

(* the row literal of computeRow from its computed parts *)
Row(scenario, y1Price, y2Price, totalPrice, y1Effective, y2Effective, discounts) ==
  [ rate |-> scenario.rate, duration |-> scenario.dq,
    contract |-> scenario.contractYears,
    totalUnits |-> discounts.totalUnits,
    discountUnits |-> discounts.discountUnits,
    y1Price |-> y1Price, y1Display |-> y1Effective,
    y1Effective |-> y1Effective, y1Delta |-> 0,
    y2Price |-> y2Price, y2Display |-> y2Effective,
    y2Effective |-> y2Effective, y2Delta |-> 0,
    totalPrice |-> totalPrice,
    annualAvg |-> IF scenario.contractYears > 0
                  THEN totalPrice \div scenario.contractYears
                  ELSE totalPrice,
    discounts |-> discounts ]

(* the prices of a row; totalPrice is contractPrice of the same scenario *)
PricedRow(c, rate, dq, contractYears, fleet, y1Price, y2Price) ==
  Row(Scenario(rate, dq, contractYears, fleet), y1Price, y2Price,
      y1Price + y2Price * Max(0, contractYears - 1),
      Effective(y1Price, displayListYear1(c)),
      Effective(y2Price, displayListYear2(c, fleet)),
      getDiscountBreakdown(c, rate, dq, contractYears, fleet))

(* computeRow(rate, duration, contractYears) with the script's fleet *)
computeRow(c, rate, dq, contractYears, fleet) ==
  PricedRow(c, rate, dq, contractYears, fleet,
            year1Price(c, rate, dq, contractYears, fleet),
            year2Price(c, rate, dq, contractYears, fleet))

(* priceEps 0.01 in cents, discEps 0.005 in FS units *)
PriceEps == 1
DiscEps == 50

Abs(x) == IF x < 0 THEN -x ELSE x

(* the differences d of deltaIssues *)
Deltas(prev, curr) ==
  [ discTotal  |-> curr.y2Display - prev.y2Display,
    discVolume |-> curr.discounts.volume - prev.discounts.volume,
    y1Price    |-> curr.y1Price - prev.y1Price,
    y2Price    |-> curr.y2Price - prev.y2Price,
    totalPrice |-> curr.totalPrice - prev.totalPrice,
    annualAvg  |-> curr.annualAvg - prev.annualAvg,
    y1Display  |-> curr.y1Display - prev.y1Display ]

IssuesOf(d) ==
  { i \in { "discount_decrease", "volume_discount_decrease",
            "y1_price_increase", "y2_price_increase", "total_price_increase",
            "annual_price_increase", "y1_flat_after_volume_increase",
            "y2_flat_after_discount_increase",
            "total_flat_after_discount_increase",
            "y1_flat_after_display_increase" } :
      CASE i = "discount_decrease"        -> d.discTotal < -DiscEps
        [] i = "volume_discount_decrease" -> d.discVolume < -DiscEps
        [] i = "y1_price_increase"        -> d.y1Price > PriceEps
        [] i = "y2_price_increase"        -> d.y2Price > PriceEps
        [] i = "total_price_increase"     -> d.totalPrice > PriceEps
        [] i = "annual_price_increase"    -> d.annualAvg > PriceEps
        [] i = "y1_flat_after_volume_increase" ->
             d.discVolume > DiscEps /\ Abs(d.y1Price) <= PriceEps
        [] i = "y2_flat_after_discount_increase" ->
             d.discTotal > DiscEps /\ Abs(d.y2Price) <= PriceEps
        [] i = "total_flat_after_discount_increase" ->
             d.discTotal > DiscEps /\ Abs(d.totalPrice) <= PriceEps
        [] i = "y1_flat_after_display_increase" ->
             d.y1Display > DiscEps /\ Abs(d.y1Price) <= PriceEps }

(* the issue names deltaIssues reports for two consecutive rows *)
deltaIssues(prev, curr) == IssuesOf(Deltas(prev, curr))

RateMin == 10
MaxSeriesRate == 17
MaxSeriesQ == 40

SeriesRates == RateMin..MaxSeriesRate
(* durations from one year up, in quarter years *)
SeriesDurations == QY..MaxSeriesQ
(* --durationStep: a quarter of a year, or a year *)
DurationSteps == { 1, QY }
(* --fleet *)
SeriesFleets == { Some(0), Some(15) }
(* --contracts all *)
SeriesContracts == DOMAIN DefaultConfig.contractDiscounts

SeriesArgs(kind, contractYears, fleet, step) ==
  [ series |-> kind, contractYears |-> contractYears, fleet |-> fleet,
    step |-> step ]

InitSeries ==
  /\ cfg = DefaultConfig
  /\ Idle
  /\ server = NoServer

(* the first row of a rate series at one duration: prev = null, no check *)
RateSeriesStart(contractYears, dq, fleet) ==
  /\ op = "idle"
  /\ op' = "runSeriesCheck"
  /\ args' = SeriesArgs("rate", contractYears, fleet, 1)
  /\ prevRow' = Some(computeRow(cfg, RateMin, dq, contractYears, fleet))
  /\ ret' = Returned({})
  /\ UNCHANGED cfg
  /\ UNCHANGED server

(* the first row of a duration series at one rate *)
DurationSeriesStart(contractYears, rate, fleet, dq, step) ==
  /\ op = "idle"
  /\ op' = "runSeriesCheck"
  /\ args' = SeriesArgs("duration", contractYears, fleet, step)
  /\ prevRow' = Some(computeRow(cfg, rate, dq, contractYears, fleet))
  /\ ret' = Returned({})
  /\ UNCHANGED cfg
  /\ UNCHANGED server

(* the next row of the running series, compared with the previous row *)
SeriesStep(rate, dq) ==
  /\ op = "runSeriesCheck"
  /\ rate \in SeriesRates
  /\ dq \in SeriesDurations
  /\ prevRow' = Some(computeRow(cfg, rate, dq, args.contractYears, args.fleet))
  /\ ret' = Returned(deltaIssues(ValueOf(prevRow), ValueOf(prevRow')))
  /\ UNCHANGED <<cfg, op, args>>
  /\ UNCHANGED server

RateSeriesNext ==
  /\ op = "runSeriesCheck"
  /\ args.series = "rate"
  /\ SeriesStep(ValueOf(prevRow).rate + args.step, ValueOf(prevRow).duration)

DurationSeriesNext ==
  /\ op = "runSeriesCheck"
  /\ args.series = "duration"
  /\ SeriesStep(ValueOf(prevRow).rate, ValueOf(prevRow).duration + args.step)

NextSeries ==
  \/ \E contractYears \in SeriesContracts, fleet \in SeriesFleets,
        dq \in SeriesDurations :
       \/ RateSeriesStart(contractYears, dq, fleet)
       \/ \E rate \in SeriesRates, step \in DurationSteps :
            DurationSeriesStart(contractYears, rate, fleet, dq, step)
  \/ RateSeriesNext
  \/ DurationSeriesNext
  \/ Return

SpecSeries == InitSeries /\ [][NextSeries]_vars

(* C4: along a duration series (fixed rate, contract length and fleet,     *)
(* growing commitment duration) neither the Year-1 nor the Year-2+ price   *)
(* rises by more than the price epsilon: the series check flags neither    *)
(* y1_price_increase nor y2_price_increase.                                *)
C4_DurationSeriesNoIncrease ==
  (op = "runSeriesCheck" /\ args.series = "duration")
  => /\ "y1_price_increase" \notin ret.value
     /\ "y2_price_increase" \notin ret.value

(* the fleet size a call works with: the argument, or CONFIG's if omitted *)
FleetOf(fleet) == resolveExistingFleet(cfg, fleet)

(* C17: for a fixed rate, commitment and contract length, a larger         *)
(* existing fleet never gives a higher Year-2+ price: f1 <= f2 implies     *)
(* year2Price(..., f2) <= year2Price(..., f1).                             *)
C17_FleetLowersYear2Price ==
  op = "year2Price"
  => \A fleet \in Fleets :
       FleetOf(args.fleet) <= FleetOf(fleet)
       => year2Price(cfg, args.rate, args.dq, args.contractYears, fleet)
            <= ret.value

(* a larger fleet that gives a strictly lower Year-2+ price *)
C17_Witness ==
  /\ op = "year2Price"
  /\ args.contractYears \in ConfiguredLengths
  /\ \E fleet \in Fleets :
       /\ FleetOf(args.fleet) < FleetOf(fleet)
       /\ year2Price(cfg, args.rate, args.dq, args.contractYears, fleet)
            < ret.value

(* C18: for every scenario with a configured contract length the Year-1    *)
(* price is strictly higher than the Year-2+ price.                        *)
C18_Year1AboveYear2 ==
  (op = "year2Price" /\ args.contractYears \in ConfiguredLengths)
  => year1Price(cfg, args.rate, args.dq, args.contractYears, args.fleet)
       > ret.value

-----------------------------------------------------------------------------
(* Further properties of volumeDiscount (checked under SpecDiscount)       *)

(* the units volumeDiscount works with: a missing or negative argument is 0 *)
UnitsOf(totalUnits) ==
  IF IsFinite(totalUnits) THEN Max(0, ValueOf(totalUnits)) ELSE 0

(* the discount on the straight line from tier lower to tier upper *)
OnLine(lower, upper, units) ==
  lower.discount
    + MulDiv(upper.discount - lower.discount, units - lower.minUnits,
             upper.minUnits - lower.minUnits)

(* the claimed value of volumeDiscount over normalized tiers *)
Piecewise(tiers, units, discount) ==
  LET n == Len(tiers)
  IN  /\ \A i \in 1..n : units = tiers[i].minUnits
                           => discount = tiers[i].discount
      /\ \A i \in 1..(n - 1) :
           (tiers[i].minUnits < units /\ units < tiers[i + 1].minUnits)
           => discount = OnLine(tiers[i], tiers[i + 1], units)
      /\ units <= tiers[1].minUnits => discount = tiers[1].discount
      /\ units > tiers[n].minUnits => discount = tiers[n].discount

ValidTiers(raw) ==
  { i \in 1..Len(raw) : IsFinite(raw[i].minUnits) /\ IsFinite(raw[i].discount) }

(* the threshold a configured tier is cleaned to: rounded, not below 0 *)
CleanedMinUnits(tier) == Max(0, Round(ValueOf(tier.minUnits))) * US

(* every ordering of a list of tiers *)
Orderings(raw) ==
  { [ i \in 1..Len(raw) |-> raw[p[i]] ] :
      p \in { q \in [ 1..Len(raw) -> 1..Len(raw) ] :
                \A a, b \in 1..Len(raw) : a # b => q[a] # q[b] } }

-----------------------------------------------------------------------------
(* Edited configurations (SpecEdited).  config.js is a file of plain       *)
(* values that operators edit, and the engine reads them as they are.      *)

(* a surcharge on the 1-year contract, entered as a negative discount *)
SurchargeConfig ==
  [DefaultConfig EXCEPT
     !.contractDiscounts = (1 :> -500 @@ 3 :> 200 @@ 5 :> 600 @@ 10 :> 700)]

(* the whole Year-1 base shifted into the later years and the Year-1      *)
(* license given away (license discount 100%)                              *)
FreeYear1Config ==
  [DefaultConfig EXCEPT !.pricing.year1ShiftFactor = FS,
                        !.licensing.year1Discount = Some(FS)]

EditedConfigs == { DefaultConfig, SurchargeConfig, FreeYear1Config }

InitEdited ==
  /\ cfg \in EditedConfigs
  /\ Idle
  /\ server = NoServer

GetDiscountBreakdown(rate, dq, contractYears, fleet) ==
  /\ op = "idle"
  /\ op' = "getDiscountBreakdown"
  /\ args' = Scenario(rate, dq, contractYears, fleet)
  /\ ret' = Returned(getDiscountBreakdown(cfg, rate, dq, contractYears,
                                          fleet))
  /\ cfg' = configAfterCall(cfg)
  /\ UNCHANGED prevRow
  /\ UNCHANGED server

Year1Margin(rate, dq, contractYears, fleet) ==
  /\ op = "idle"
  /\ op' = "year1Margin"
  /\ args' = Scenario(rate, dq, contractYears, fleet)
  /\ ret' = Returned(year1Margin(cfg, rate, dq, contractYears, fleet))
  /\ cfg' = configAfterCall(cfg)
  /\ UNCHANGED prevRow
  /\ UNCHANGED server

Year2Margin(rate, dq, contractYears, fleet) ==
  /\ op = "idle"
  /\ op' = "year2Margin"
  /\ args' = Scenario(rate, dq, contractYears, fleet)
  /\ ret' = Returned(year2Margin(cfg, rate, dq, contractYears, fleet))
  /\ cfg' = configAfterCall(cfg)
  /\ UNCHANGED prevRow
  /\ UNCHANGED server

ContractMargin(rate, dq, contractYears, fleet) ==
  /\ op = "idle"
  /\ op' = "contractMargin"
  /\ args' = Scenario(rate, dq, contractYears, fleet)
  /\ ret' = Returned(contractMargin(cfg, rate, dq, contractYears, fleet))
  /\ cfg' = configAfterCall(cfg)
  /\ UNCHANGED prevRow
  /\ UNCHANGED server

NextEdited ==
  \/ \E rate \in Rates, dq \in CommitQs, contractYears \in ContractLengths,
        fleet \in Fleets :
       \/ GetDiscountBreakdown(rate, dq, contractYears, fleet)
       \/ Year1Margin(rate, dq, contractYears, fleet)
       \/ Year2Margin(rate, dq, contractYears, fleet)
       \/ Year2MarginWithOverhead(rate, dq, contractYears, fleet)
       \/ ContractMargin(rate, dq, contractYears, fleet)
  \/ Return

SpecEdited == InitEdited /\ [][NextEdited]_vars

(* a fraction in FS units that lies in [0, 1] *)
UnitFraction == 0..FS

(* C11: every discount fraction getDiscountBreakdown reports (volume,      *)
(* volumeY1, contract, totalY1, totalY2) lies in [0, 1], and so does the   *)
(* total discount year2PriceRaw applies to the list price, for every       *)
(* configuration and scenario.                                             *)
C11_DiscountFractionsInRange ==
  op = "getDiscountBreakdown"
  => /\ ret.value.volume \in UnitFraction
     /\ ret.value.volumeY1 \in UnitFraction
     /\ ret.value.contract \in UnitFraction
     /\ ret.value.totalY1 \in UnitFraction
     /\ ret.value.totalY2 \in UnitFraction
     /\ year2TotalDiscount(cfg, args.rate, args.dq, args.contractYears)
          \in UnitFraction

MarginQueries ==
  { "year1Margin", "year2Margin", "year2MarginWithOverhead",
    "contractMargin" }

(* the price the margin function in progress divides by *)
MarginPrice ==
  IF op = "year1Margin"
  THEN year1Price(cfg, args.rate, args.dq, args.contractYears, args.fleet)
  ELSE IF op = "contractMargin"
  THEN contractPrice(cfg, args.rate, args.dq, args.contractYears, args.fleet)
  ELSE year2Price(cfg, args.rate, args.dq, args.contractYears, args.fleet)

(* C16: the margin functions never return NaN or an infinity; when the     *)
(* price they divide by is zero or negative they report an error instead   *)
(* of a number.                                                            *)
C16_MarginDefined ==
  op \in MarginQueries
  => /\ ret.threw \/ IsFinite(ret.value)
     /\ MarginPrice <= 0 => ret.threw

-----------------------------------------------------------------------------
(* Further properties of the pricing queries (checked under Spec)          *)

PriceQueries == { "year1Price", "year2Price", "contractPrice" }

Unshifted(c) == [c EXCEPT !.pricing.year1ShiftFactor = 0]

(* C13: for every configured contract length, the 1-year length included,  *)
(* and every year1ShiftFactor in [0, 1], contractPrice is not lower than   *)
(* contractPrice with factor 0, up to one rounding increment per contract  *)
(* year.                                                                   *)
C13_ShiftKeepsContractPrice ==
  (op = "contractPrice" /\ args.contractYears \in ConfiguredLengths)
  => ret.value >= contractPrice(Unshifted(cfg), args.rate, args.dq,
                                args.contractYears, args.fleet)
                    - RoundingIncrement * args.contractYears

(* C14: year1Price takes the volume discount times year1VolumeFactor off   *)
(* the fixed Year-1 price and no contract discount: for a fixed rate and   *)
(* commitment it is the same for every contract length and every existing  *)
(* fleet.  The Year-2+ base price takes the full volume discount plus the  *)
(* contract discount off the list price.                                   *)
C14_Year1IgnoresContract ==
  /\ op = "year1Price"
     => /\ \A contractYears \in ContractLengths, fleet \in Fleets :
             year1Price(cfg, args.rate, args.dq, contractYears, fleet)
               = ret.value
        /\ ret.value
             = roundUp10(
                 Max(0, roundUp10(MulDiv(cfg.pricing.year1FixedPrice,
                            FS - year1TotalDiscount(cfg, args.rate, args.dq,
                                                    args.contractYears), FS))
                          - year1ShiftAmount(cfg, args.rate, args.dq))
                 + licensePriceYear1(cfg))
  /\ op = "year2Price"
     => year2PriceRaw(cfg, args.rate, args.dq, args.contractYears, args.fleet)
          = roundUp10(MulDiv(year2ListPrice(cfg, args.rate, args.dq,
                                            args.contractYears, args.fleet),
                             FS - volumeDiscount(cfg,
                                    Some(discountBasisUnits(cfg, args.rate,
                                                            args.dq)))
                                - contractDiscount(cfg, args.contractYears),
                             FS))
            + licensePriceYear2(cfg)
            + year1ShiftPerYear(cfg, args.rate, args.dq, args.contractYears)

(* a Year-1 price with a volume discount, asked for a discounted contract  *)
(* length and an existing fleet                                            *)
C14_Witness ==
  /\ op = "year1Price"
  /\ contractDiscount(cfg, args.contractYears) > 0
  /\ IsFinite(args.fleet)
  /\ ValueOf(args.fleet) > 0
  /\ year1TotalDiscount(cfg, args.rate, args.dq, args.contractYears) > 0
  /\ ret.value < cfg.pricing.year1FixedPrice + licensePriceYear1(cfg)

-----------------------------------------------------------------------------
(* Sequences of engine calls on one CONFIG (SpecCalls): every function the *)
(* callers use, called in any order.                                       *)

CallConfigs == { DefaultConfig, ShiftConfig }

InitCalls ==
  /\ cfg \in CallConfigs
  /\ Idle
  /\ server = NoServer

GetVolumeTier(totalUnits) ==
  /\ op = "idle"
  /\ op' = "getVolumeTier"
  /\ args' = [ totalUnits |-> totalUnits ]
  /\ ret' = Returned(getVolumeTier(cfg, totalUnits))
  /\ cfg' = configAfterCall(cfg)
  /\ UNCHANGED prevRow
  /\ UNCHANGED server

NextCalls ==
  \/ \E totalUnits \in UnitInputs :
       \/ VolumeDiscount(totalUnits)
       \/ GetVolumeTier(totalUnits)
  \/ \E rate \in Rates, dq \in CommitQs, contractYears \in ContractLengths,
        fleet \in Fleets :
       \/ Year1Price(rate, dq, contractYears, fleet)
       \/ Year2Price(rate, dq, contractYears, fleet)
       \/ ContractPrice(rate, dq, contractYears, fleet)
       \/ Year1Margin(rate, dq, contractYears, fleet)
       \/ Year2Margin(rate, dq, contractYears, fleet)
       \/ Year2MarginWithOverhead(rate, dq, contractYears, fleet)
       \/ ContractMargin(rate, dq, contractYears, fleet)
       \/ GetDiscountBreakdown(rate, dq, contractYears, fleet)
  \/ Return

SpecCalls == InitCalls /\ [][NextCalls]_vars

(* the value a call returns, as a function of CONFIG and its arguments *)
ResultOf(name, c, a) ==
  CASE name = "volumeDiscount" -> volumeDiscount(c, a.totalUnits)
    [] name = "getVolumeTier" -> getVolumeTier(c, a.totalUnits)
    [] name = "year1Price" ->
         year1Price(c, a.rate, a.dq, a.contractYears, a.fleet)
    [] name = "year2Price" ->
         year2Price(c, a.rate, a.dq, a.contractYears, a.fleet)
    [] name = "contractPrice" ->
         contractPrice(c, a.rate, a.dq, a.contractYears, a.fleet)
    [] name = "year1Margin" ->
         year1Margin(c, a.rate, a.dq, a.contractYears, a.fleet)
    [] name = "year2Margin" ->
         year2Margin(c, a.rate, a.dq, a.contractYears, a.fleet)
    [] name = "year2MarginWithOverhead" ->
         year2MarginWithOverhead(c, a.rate, a.dq, a.contractYears, a.fleet)
    [] name = "contractMargin" ->
         contractMargin(c, a.rate, a.dq, a.contractYears, a.fleet)
    [] name = "getDiscountBreakdown" ->
         getDiscountBreakdown(c, a.rate, a.dq, a.contractYears, a.fleet)

-----------------------------------------------------------------------------
(* The persistence service, server.js (SpecServer).                        *)
(*                                                                         *)
(* JavaScript values are written as their literals ("{rate:5}"); a JSON    *)
(* text is a record [text |-> ...], so that a value and its serialisation  *)
(* are different things.  Requests are handled one at a time: every        *)
(* handler is synchronous.                                                 *)

Keys == { "config", "ui" }

(* values a request can carry for a key: falsy ones, objects, and a number *)
(* that overflowed to Infinity when the body was parsed, on its own or in  *)
(* an object                                                               *)
PartValues ==
  { "null", "0", "{}", "{rate:5}", "{rate:8}", "{rate:Infinity}", "Infinity" }

(* express.json() accepts objects and arrays only; no body: undefined *)
BodyValues ==
  { "undefined", "{}", "{rate:5}", "{rate:8}", "{rate:Infinity}" }

Falsy(v) == v \in { "undefined", "null", "0" }

(* value || {} *)
OrEmptyObject(v) == IF Falsy(v) THEN "{}" ELSE v

(* JSON.stringify: a non-finite number is written as null *)
JSONstringify(v) ==
  [ text |-> IF v = "{rate:Infinity}" THEN "{rate:null}"
             ELSE IF v = "Infinity" THEN "null"
             ELSE v ]

(* JSON.parse of a text JSON.stringify produced *)
JSONparse(t) == t.text

(* JSON.stringify and JSON.parse of the state object, member by member *)
StringifyState(state) ==
  [ text |-> [ k \in DOMAIN state |-> JSONstringify(state[k]).text ] ]

ParseState(t) == [ k \in DOMAIN t.text |-> JSONparse([ text |-> t.text[k] ]) ]

NoFile == Undefined
EmptyState == [ k \in {} |-> "{}" ]

(* readFileSync + JSON.parse; any error (no such file) gives {} *)
readStateFile(s) ==
  IF IsFinite(s.file) THEN ParseState(ValueOf(s.file)) ELSE EmptyState

(* variant: the write fails, which writeStateFile logs and ignores *)
writeStateFileFailed(s, state) == s

writeStateFile(s, state) == [s EXCEPT !.file = Some(StringifyState(state))]

getSetting(s, key, fallback) ==
  IF s.useFileStore
  THEN IF key \in DOMAIN readStateFile(s) THEN readStateFile(s)[key]
       ELSE fallback
  ELSE IF key \notin DOMAIN s.table THEN fallback
       ELSE JSONparse(s.table[key])

(* variant: the SQLite store keeping one row, whatever its key *)
setSettingSingleRow(s, key, value) ==
  IF s.useFileStore
  THEN writeStateFile(s, (key :> OrEmptyObject(value)) @@ readStateFile(s))
  ELSE [s EXCEPT !.table = (key :> JSONstringify(OrEmptyObject(value)))]

(* variant: the file store writing a fresh state object holding one key *)
setSettingFresh(s, key, value) ==
  IF s.useFileStore
  THEN writeStateFile(s, (key :> OrEmptyObject(value)))
  ELSE [s EXCEPT !.table =
          (key :> JSONstringify(OrEmptyObject(value))) @@ s.table]

(* the updatedAt column is written and never read: it is left out *)
setSetting(s, key, value) ==
  IF s.useFileStore
  THEN writeStateFile(s, (key :> OrEmptyObject(value)) @@ readStateFile(s))
  ELSE [s EXCEPT !.table =
          (key :> JSONstringify(OrEmptyObject(value))) @@ s.table]

(* the body of a PUT /api/state: undefined, or an object with any of the   *)
(* two members                                                             *)
StateBodies ==
  { Undefined }
    \cup { Some(b) : b \in UNION { [D -> PartValues] : D \in SUBSET Keys } }

(* req.body.config, undefined if the body or the member is missing *)
Carried(body, key) ==
  IF IsFinite(body) /\ key \in DOMAIN ValueOf(body)
  THEN ValueOf(body)[key] ELSE "undefined"

(* req.body && req.body.config ? req.body.config : {} *)
MemberOrEmpty(body, key) == OrEmptyObject(Carried(body, key))

Recorded(s, key, value) == [s EXCEPT !.written[key] = Some(value)]

(* res.json(value) *)
Json(value) == Returned(JSONstringify(value))

Ok == Returned([ text |-> "{ok:true}" ])

(* initSqlite succeeds or not; the data directory is new *)
InitServer ==
  /\ cfg = DefaultConfig
  /\ Idle
  /\ server \in { [ useFileStore |-> b, file |-> NoFile,
                    table |-> EmptyState,
                    written |-> [ k \in Keys |-> Undefined ] ]
                  : b \in BOOLEAN }

GetState ==
  /\ op = "idle"
  /\ op' = "GET /api/state"
  /\ args' = NoArgs
  /\ ret' = Returned(StringifyState(
              [ k \in Keys |-> getSetting(server, k, "{}") ]))
  /\ UNCHANGED <<cfg, prevRow, server>>

PutState(body) ==
  /\ op = "idle"
  /\ op' = "PUT /api/state"
  /\ args' = [ body |-> body ]
  /\ server' = Recorded(Recorded(
                 setSetting(setSetting(server, "config",
                                       MemberOrEmpty(body, "config")),
                            "ui", MemberOrEmpty(body, "ui")),
                 "config", Carried(body, "config")),
                 "ui", Carried(body, "ui"))
  /\ ret' = Ok
  /\ UNCHANGED <<cfg, prevRow>>

GetConfig ==
  /\ op = "idle"
  /\ op' = "GET /api/config"
  /\ args' = NoArgs
  /\ ret' = Json(getSetting(server, "config", "{}"))
  /\ UNCHANGED <<cfg, prevRow, server>>

PutConfig(body) ==
  /\ op = "idle"
  /\ op' = "PUT /api/config"
  /\ args' = [ body |-> body ]
  /\ server' = Recorded(setSetting(server, "config", OrEmptyObject(body)),
                        "config", body)
  /\ ret' = Ok
  /\ UNCHANGED <<cfg, prevRow>>

GetUi ==
  /\ op = "idle"
  /\ op' = "GET /api/ui"
  /\ args' = NoArgs
  /\ ret' = Json(getSetting(server, "ui", "{}"))
  /\ UNCHANGED <<cfg, prevRow, server>>

PutUi(body) ==
  /\ op = "idle"
  /\ op' = "PUT /api/ui"
  /\ args' = [ body |-> body ]
  /\ server' = Recorded(setSetting(server, "ui", OrEmptyObject(body)),
                        "ui", body)
  /\ ret' = Ok
  /\ UNCHANGED <<cfg, prevRow>>

(* the response has been sent *)
Respond ==
  /\ op # "idle"
  /\ op' = "idle"
  /\ args' = NoArgs
  /\ ret' = Returned(0)
  /\ UNCHANGED <<cfg, prevRow, server>>

NextServer ==
  \/ GetState
  \/ \E body \in StateBodies : PutState(body)
  \/ GetConfig
  \/ \E body \in BodyValues : PutConfig(body)
  \/ GetUi
  \/ \E body \in BodyValues : PutUi(body)
  \/ Respond

SpecServer == InitServer /\ [][NextServer]_vars

(* the response text for a key: the value last carried for it, or {} if    *)
(* none was ever written or the value was missing or falsy                 *)
LastWritten(key) ==
  JSONstringify(
    IF IsFinite(server.written[key])
    THEN OrEmptyObject(ValueOf(server.written[key]))
    ELSE "{}")

-----------------------------------------------------------------------------
(* The unit and support-hour functions called on their own (SpecUnits):    *)
(* discountBasisUnits, avgInstalledBaseForYear and supportHoursForYear,    *)
(* under edited duration weights and efficiency curves.                    *)

(* volumeDurationWeight missing (read as 1), below 0, 0, 1 and above 1 *)
WeightValues == { Undefined, Some(-(FS \div 2)), Some(0), Some(FS),
                  Some(FS + FS \div 2) }

WeightConfigs ==
  { [DefaultConfig EXCEPT !.discounts.volumeDurationWeight = w] :
      w \in WeightValues }

(* a steep scale curve that reaches its floor within the grid, and a fast  *)
(* decay with a low floor                                                  *)
SteepScaleConfig ==
  [DefaultConfig EXCEPT
     !.efficiency = [ supportDecayRate |-> FS \div 2,
                      supportFloor |-> FS \div 4 ],
     !.scaleEfficiency = [ scaleRefUnits |-> 50, scaleSlope |-> 3 * FS,
                           scaleFloor |-> FS \div 2 ]]

UnitConfigs == { DefaultConfig, SteepScaleConfig } \cup WeightConfigs

(* commitment lengths in quarter-years: half a year, a year and a half,    *)
(* and the whole years                                                     *)
UnitCommitQs == { QY \div 2, QY + QY \div 2 } \cup CommitQs

Years == 1..MaxContractYears

InitUnits ==
  /\ cfg \in UnitConfigs
  /\ Idle
  /\ server = NoServer

DiscountBasisUnits(rate, dq) ==
  /\ op = "idle"
  /\ op' = "discountBasisUnits"
  /\ args' = [ rate |-> rate, dq |-> dq ]
  /\ ret' = Returned(discountBasisUnits(cfg, rate, dq))
  /\ UNCHANGED cfg
  /\ UNCHANGED prevRow
  /\ UNCHANGED server

YearScenario(year, rate, dq, fleet) ==
  [ year |-> year, rate |-> rate, dq |-> dq, fleet |-> fleet ]

AvgInstalledBaseForYear(year, rate, dq, fleet) ==
  /\ op = "idle"
  /\ op' = "avgInstalledBaseForYear"
  /\ args' = YearScenario(year, rate, dq, fleet)
  /\ ret' = Returned(avgInstalledBaseForYear(cfg, year, rate, dq, fleet))
  /\ UNCHANGED cfg
  /\ UNCHANGED prevRow
  /\ UNCHANGED server

SupportHoursForYear(year, rate, dq, fleet) ==
  /\ op = "idle"
  /\ op' = "supportHoursForYear"
  /\ args' = YearScenario(year, rate, dq, fleet)
  /\ ret' = Returned(supportHoursForYear(cfg, year, rate, dq, fleet))
  /\ UNCHANGED cfg
  /\ UNCHANGED prevRow
  /\ UNCHANGED server

NextUnits ==
  \/ \E rate \in Rates, dq \in UnitCommitQs : DiscountBasisUnits(rate, dq)
  \/ \E year \in Years, rate \in Rates, dq \in UnitCommitQs,
        fleet \in Fleets :
       \/ AvgInstalledBaseForYear(year, rate, dq, fleet)
       \/ SupportHoursForYear(year, rate, dq, fleet)
  \/ Return

SpecUnits == InitUnits /\ [][NextUnits]_vars

(* the configured weight as the engine reads it: 1 when missing, clamped   *)
(* to [0,1]                                                                *)
DurationWeight ==
  IF IsFinite(cfg.discounts.volumeDurationWeight)
  THEN Max(0, Min(FS, ValueOf(cfg.discounts.volumeDurationWeight)))
  ELSE FS

(* C22: discountBasisUnits(rate, commitYears) is annualUnits x (1 - w) +   *)
(* annualUnits x commitYears x w with annualUnits = rate x 12 and w the    *)
(* configured volumeDurationWeight clamped to [0,1]; w = 0 gives the       *)
(* annual units, w = 1 gives totalCommitment, and for commitYears >= 1 the *)
(* result lies between the two.                                            *)
C22_BasisBetweenAnnualAndTotal ==
  op = "discountBasisUnits" =>
    LET annual == annualUnits(args.rate) * US
        total  == totalCommitment(args.rate, args.dq)
    IN  /\ ret.value = MulDiv(annual, FS - DurationWeight, FS)
                         + MulDiv(total, DurationWeight, FS)
        /\ DurationWeight = 0 => ret.value = annual
        /\ DurationWeight = FS => ret.value = total
        /\ args.dq >= QY => /\ annual <= ret.value
                            /\ ret.value <= total

(* a call with the shipped weight 0.25 on a three-year commitment, whose   *)
(* result is strictly between the annual and the total units, and calls    *)
(* with a weight outside [0,1]                                             *)
C22_Witness ==
  /\ op = "discountBasisUnits"
  /\ args.dq = 3 * QY
  /\ \/ /\ cfg.discounts.volumeDurationWeight = Some(FS \div 4)
        /\ annualUnits(args.rate) * US < ret.value
        /\ ret.value < totalCommitment(args.rate, args.dq)
     \/ /\ cfg.discounts.volumeDurationWeight = Some(FS + FS \div 2)
        /\ ret.value = totalCommitment(args.rate, args.dq)

Hours(base, timeFactor, scale) ==
  MulDiv(MulDiv(base * FS, timeFactor, FS), scale, FS)

(* C26: with decay rate, support floor and scale floor in (0,1],           *)
(* supportHoursForYear = base x max(supportFloor, decayRate^(year-1)) x    *)
(* scaleFactor(avgInstalledBaseForYear(year)) is non-increasing in year    *)
(* and in the existing fleet, and stays within [base x supportFloor x      *)
(* scaleFloor, base]; scaleFactor is exactly 1 when the installed base is  *)
(* at most scaleRefUnits.                                                  *)
C26_SupportHoursDecline ==
  op = "supportHoursForYear" =>
    LET base     == cfg.labor.supportHoursPerUnitYear
        eff      == cfg.efficiency
        se       == cfg.scaleEfficiency
        avgBase  == avgInstalledBaseForYear(cfg, args.year, args.rate,
                                            args.dq, args.fleet)
        existing == resolveExistingFleet(cfg, args.fleet)
    IN  /\ ret.value =
             Hours(base,
                   Max(eff.supportFloor,
                       Pow(eff.supportDecayRate, args.year - 1)),
                   scaleFactor(cfg, avgBase))
        /\ \A later \in Years :
             later >= args.year =>
               supportHoursForYear(cfg, later, args.rate, args.dq,
                                   args.fleet) <= ret.value
        /\ \A larger \in Fleets :
             resolveExistingFleet(cfg, larger) >= existing =>
               supportHoursForYear(cfg, args.year, args.rate, args.dq,
                                   larger) <= ret.value
        /\ Hours(base, eff.supportFloor, se.scaleFloor) <= ret.value
        /\ ret.value <= base * FS
        /\ avgBase <= se.scaleRefUnits => scaleFactor(cfg, avgBase) = FS

(* a year in which both curves have reached their floors, after a year in  *)
(* which neither had, and a larger fleet lowering the hours                *)
C26_Witness ==
  /\ op = "supportHoursForYear"
  /\ cfg = SteepScaleConfig
  /\ args.year = 5
  /\ args.fleet = Some(0)
  /\ ret.value = Hours(cfg.labor.supportHoursPerUnitYear,
                       cfg.efficiency.supportFloor,
                       cfg.scaleEfficiency.scaleFloor)
  /\ supportHoursForYear(cfg, 1, args.rate, args.dq, args.fleet)
       = cfg.labor.supportHoursPerUnitYear * FS
  /\ supportHoursForYear(DefaultConfig, 1, args.rate, args.dq, Some(200))
       < supportHoursForYear(DefaultConfig, 1, args.rate, args.dq, Some(0))

-----------------------------------------------------------------------------
(* The overhead credit and the Year 2+ list price called on their own      *)
(* (SpecOverhead), under edited credit settings and baseline lengths.      *)

CreditOffConfig ==
  [DefaultConfig EXCEPT !.pricing.overheadCreditEnabled = Some(FALSE)]

(* no cap: the surplus is spread over all later years *)
UncappedCreditConfig ==
  [DefaultConfig EXCEPT !.pricing.overheadCreditYears = Undefined]

(* overheadCreditYears: 0.5 *)
HalfYearCapConfig ==
  [DefaultConfig EXCEPT !.pricing.overheadCreditYears = Some(QY \div 2)]

ShortBaselineConfig ==
  [DefaultConfig EXCEPT !.pricing.year2BaselineYears = Some(3)]

OverheadConfigs ==
  { DefaultConfig, CreditOffConfig, UncappedCreditConfig, HalfYearCapConfig,
    ShortBaselineConfig }

InitOverhead ==
  /\ cfg \in OverheadConfigs
  /\ Idle
  /\ server = NoServer

OverheadBlended(contractYears, rate, dq, fleet) ==
  /\ op = "idle"
  /\ op' = "overheadBlended"
  /\ args' = Scenario(rate, dq, contractYears, fleet)
  /\ ret' = Returned(overheadBlended(cfg, contractYears, rate, dq, fleet))
  /\ cfg' = configAfterCall(cfg)
  /\ UNCHANGED prevRow
  /\ UNCHANGED server

Year2ListPrice(rate, dq, contractYears, fleet) ==
  /\ op = "idle"
  /\ op' = "year2ListPrice"
  /\ args' = Scenario(rate, dq, contractYears, fleet)
  /\ ret' = Returned(year2ListPrice(cfg, rate, dq, contractYears, fleet))
  /\ cfg' = configAfterCall(cfg)
  /\ UNCHANGED prevRow
  /\ UNCHANGED server

NextOverhead ==
  \/ \E rate \in Rates, dq \in CommitQs, contractYears \in ContractLengths,
        fleet \in Fleets :
       \/ OverheadBlended(contractYears, rate, dq, fleet)
       \/ Year2ListPrice(rate, dq, contractYears, fleet)
  \/ Return

SpecOverhead == InitOverhead /\ [][NextOverhead]_vars

CreditEnabled == cfg.pricing.overheadCreditEnabled # Some(FALSE)

(* the cap on the credit years, in quarter-years: the configured one when  *)
(* it is a positive number, else all the later years                       *)
CreditCap(contractYears) ==
  IF /\ IsFinite(cfg.pricing.overheadCreditYears)
     /\ ValueOf(cfg.pricing.overheadCreditYears) > 0
  THEN ValueOf(cfg.pricing.overheadCreditYears)
  ELSE (contractYears - 1) * QY

Year1Surplus(a) ==
  Max(0, year1Price(cfg, a.rate, a.dq, a.contractYears, a.fleet)
           - year1Cost(cfg, a.rate, a.dq, a.fleet)
           - MulDiv(overheadPerUnitForYear(cfg, 1, a.rate, a.dq, a.fleet),
                    cfg.pricing.overheadYear1Factor, FS))

(* base less the surplus spread over creditQs quarter-years, floored at 0 *)
AfterCredit(base, surplus, creditQs) ==
  Max(0, base - (surplus * QY) \div creditQs)

(* C24 as stated: overheadBlended equals overheadBlendedBase when the      *)
(* credit is disabled or contractYears <= 1; otherwise it is max(0, base - *)
(* surplus / min(contractYears - 1, creditCap)) with surplus = max(0,      *)
(* year1Price - year1Cost - Year-1 overhead contribution); hence 0 <=      *)
(* overheadBlended <= overheadBlendedBase.                                 *)
C24_CreditSpread ==
  op = "overheadBlended" =>
    /\ ret.value =
         IF ~CreditEnabled \/ args.contractYears <= 1
         THEN overheadBlendedBase(cfg, args.contractYears, args.rate,
                                  args.dq, args.fleet)
         ELSE AfterCredit(
                overheadBlendedBase(cfg, args.contractYears, args.rate,
                                    args.dq, args.fleet),
                Year1Surplus(args),
                Min((args.contractYears - 1) * QY,
                    CreditCap(args.contractYears)))
    /\ 0 <= ret.value
    /\ ret.value <= overheadBlendedBase(cfg, args.contractYears, args.rate,
                                        args.dq, args.fleet)

(* C24, amended: the surplus is spread over max(1, min(contractYears - 1,  *)
(* creditCap)) years, so never over less than one year; the rest as        *)
(* stated.                                                                 *)
C24_CreditSpreadOverAtLeastOneYear ==
  op = "overheadBlended" =>
    /\ ret.value =
         IF ~CreditEnabled \/ args.contractYears <= 1
         THEN overheadBlendedBase(cfg, args.contractYears, args.rate,
                                  args.dq, args.fleet)
         ELSE AfterCredit(
                overheadBlendedBase(cfg, args.contractYears, args.rate,
                                    args.dq, args.fleet),
                Year1Surplus(args),
                Max(QY, Min((args.contractYears - 1) * QY,
                            CreditCap(args.contractYears))))
    /\ 0 <= ret.value
    /\ ret.value <= overheadBlendedBase(cfg, args.contractYears, args.rate,
                                        args.dq, args.fleet)

(* a ten-year contract whose Year-1 surplus is spread over the four capped *)
(* years and lowers the blended overhead without exhausting it             *)
C24_Witness ==
  /\ op = "overheadBlended"
  /\ cfg = DefaultConfig
  /\ args.contractYears = 10
  /\ Year1Surplus(args) > 0
  /\ 0 < ret.value
  /\ ret.value < overheadBlendedBase(cfg, args.contractYears, args.rate,
                                     args.dq, args.fleet)

(* C25: year2ListPrice is computed only from the baseline contract length: *)
(* for a fixed rate, commitment and fleet it returns the same value for    *)
(* every requested contractYears, namely (year2CostBlended(baseline) +     *)
(* overheadBlended(baseline)) x (1 + target margin) / max(0.01, 1 -        *)
(* contractDiscount(baseline)).                                            *)
C25_ListPriceFromBaseline ==
  op = "year2ListPrice" =>
    /\ ret.value =
         MulDiv(MulDiv(year2CostBlended(cfg, baselineYears(cfg), args.rate,
                                        args.dq, args.fleet)
                         + overheadBlended(cfg, baselineYears(cfg),
                                           args.rate, args.dq, args.fleet),
                       FS + cfg.pricing.margins.year2Plus, FS),
                FS,
                Max(FS \div 100,
                    FS - contractDiscount(cfg, baselineYears(cfg))))
    /\ \A other \in ContractLengths :
         year2ListPrice(cfg, args.rate, args.dq, other, args.fleet)
           = ret.value

(* a ten-year request under a three-year baseline: the list price is the   *)
(* baseline's, while the blended cost of the requested length differs      *)
C25_Witness ==
  /\ op = "year2ListPrice"
  /\ cfg = ShortBaselineConfig
  /\ args.contractYears = 10
  /\ ret.value > 0
  /\ year2CostBlended(cfg, args.contractYears, args.rate, args.dq,
                      args.fleet)
       # year2CostBlended(cfg, baselineYears(cfg), args.rate, args.dq,
                          args.fleet)

-----------------------------------------------------------------------------
(* Further properties of the margin functions (checked under SpecEdited)   *)

(* a price counted in rounding increments *)
Increments(price) == price \div RoundingIncrement

(* margin x price summed over the years of the contract, less contract     *)
(* margin x contract price; margins in FS units, prices in increments      *)
WeightedDifference(cm, cp, m1, p1, years, m2, p2) ==
  (m1 * Increments(p1) + years * m2 * Increments(p2)) - cm * Increments(cp)

(* the margins are fractions cut off at 1/FS, so each margin x price is    *)
(* known to within 1/FS of the price: the two sides agree to within 1/FS   *)
(* of the contract price                                                   *)
MarginsCombine(c, a, p1, p2, cp) ==
  (p1 > 0 /\ p2 > 0 /\ cp > 0) =>
    LET years == Max(0, a.contractYears - 1)
        cm == ValueOf(contractMargin(c, a.rate, a.dq, a.contractYears,
                                     a.fleet))
        m1 == ValueOf(year1Margin(c, a.rate, a.dq, a.contractYears,
                                  a.fleet))
        m2 == ValueOf(year2MarginWithOverhead(c, a.rate, a.dq,
                                              a.contractYears, a.fleet))
    IN  /\ cp = p1 + years * p2
        /\ Abs(WeightedDifference(cm, cp, m1, p1, years, m2, p2))
             < Increments(cp)
        /\ a.contractYears = 1 => cm = m1

(* C27: contractMargin is the price-weighted combination of the yearly     *)
(* margins: for every scenario with price > 0, contractMargin x            *)
(* contractPrice = year1Margin x year1Price + max(0, contractYears - 1) x  *)
(* year2MarginWithOverhead x year2Price; for contractYears = 1             *)
(* contractMargin equals year1Margin.                                      *)
C27_ContractMarginWeighted ==
  op = "contractMargin" =>
    /\ ret.value = contractMargin(cfg, args.rate, args.dq,
                                  args.contractYears, args.fleet)
    /\ MarginsCombine(cfg, args,
         year1Price(cfg, args.rate, args.dq, args.contractYears, args.fleet),
         year2Price(cfg, args.rate, args.dq, args.contractYears, args.fleet),
         contractPrice(cfg, args.rate, args.dq, args.contractYears,
                       args.fleet))

(* StrictlyBetween(x, a, b): x lies strictly between a and b *)
StrictlyBetween(x, a, b) == (a < x /\ x < b) \/ (b < x /\ x < a)

(* a five-year contract whose yearly margins differ, with the contract     *)
(* margin strictly between them                                            *)
C27_Witness ==
  /\ op = "contractMargin"
  /\ cfg = DefaultConfig
  /\ args.contractYears = 5
  /\ IsFinite(ret.value)
  /\ StrictlyBetween(
       ValueOf(ret.value),
       ValueOf(year1Margin(cfg, args.rate, args.dq, args.contractYears,
                           args.fleet)),
       ValueOf(year2MarginWithOverhead(cfg, args.rate, args.dq,
                                       args.contractYears, args.fleet)))

(* what GET /api/config or GET /api/ui would answer in state s *)
Answer(s, key) == Json(getSetting(s, key, "{}"))

-----------------------------------------------------------------------------
(* Two instances of the service serving the same requests, one on the      *)
(* JSON-file store and one on the SQLite store (SpecBackends).  Here       *)
(* server holds the storage of both, and ret the two responses.            *)

Backends == { "file", "sqlite" }

Storage(backend) ==
  [ useFileStore |-> backend = "file", file |-> NoFile, table |-> EmptyState ]

InitBackends ==
  /\ cfg = DefaultConfig
  /\ Idle
  /\ server = [ b \in Backends |-> Storage(b) ]

(* GET /api/state *)
StateAnswer(s) ==
  Returned(StringifyState([ k \in Keys |-> getSetting(s, k, "{}") ]))

(* PUT /api/state *)
AfterPutState(s, body) ==
  setSetting(setSetting(s, "config", MemberOrEmpty(body, "config")),
             "ui", MemberOrEmpty(body, "ui"))

BothGetState ==
  /\ op = "idle"
  /\ op' = "GET /api/state"
  /\ args' = NoArgs
  /\ ret' = [ b \in Backends |-> StateAnswer(server[b]) ]
  /\ UNCHANGED <<cfg, prevRow, server>>

BothPutState(body) ==
  /\ op = "idle"
  /\ op' = "PUT /api/state"
  /\ args' = [ body |-> body ]
  /\ server' = [ b \in Backends |-> AfterPutState(server[b], body) ]
  /\ ret' = [ b \in Backends |-> Ok ]
  /\ UNCHANGED <<cfg, prevRow>>

(* GET /api/config and GET /api/ui *)
BothGet(key) ==
  /\ op = "idle"
  /\ op' = "GET /api/" \o key
  /\ args' = NoArgs
  /\ ret' = [ b \in Backends |-> Json(getSetting(server[b], key, "{}")) ]
  /\ UNCHANGED <<cfg, prevRow, server>>

(* PUT /api/config and PUT /api/ui *)
BothPut(key, body) ==
  /\ op = "idle"
  /\ op' = "PUT /api/" \o key
  /\ args' = [ body |-> body ]
  /\ server' = [ b \in Backends |->
                   setSetting(server[b], key, OrEmptyObject(body)) ]
  /\ ret' = [ b \in Backends |-> Ok ]
  /\ UNCHANGED <<cfg, prevRow>>

NextBackends ==
  \/ BothGetState
  \/ \E body \in StateBodies : BothPutState(body)
  \/ \E key \in Keys : BothGet(key)
  \/ \E key \in Keys, body \in BodyValues : BothPut(key, body)
  \/ Respond

SpecBackends == InitBackends /\ [][NextBackends]_vars

-----------------------------------------------------------------------------
(* The reporting script's parameter grid (SpecGrid): parseArgs, toNumber   *)
(* and the two calls of range, up to the point where the table and the     *)
(* series check start.  Here args holds the six numeric options and ret    *)
(* the lists built so far.  Numbers are whole; node runs the script's      *)
(* synchronous code without interruption, hence the fairness.              *)

(* an option as parseArgs leaves it: missing or not a finite number        *)
(* (Undefined), or the number Number() reads from it                       *)
StepOptions == { Undefined, Some(-1), Some(0), Some(2) }
RateMinOptions == { Undefined, Some(12) }
RateMaxOptions == { Undefined, Some(11) }
DurationMinOptions == { Undefined, Some(2) }
DurationMaxOptions == { Undefined, Some(2) }

(* with a positive step the longest list is the default 10..15, which      *)
(* fits in memory                                                          *)
GridOptions ==
  [ rateMin : RateMinOptions, rateMax : RateMaxOptions,
    rateStep : StepOptions,
    durationMin : DurationMinOptions, durationMax : DurationMaxOptions,
    durationStep : StepOptions ]

(* Number.isFinite(Number(value)) ? Number(value) : fallback *)
toNumber(value, fallback) ==
  IF IsFinite(value) THEN ValueOf(value) ELSE fallback

(* the most elements a list can hold before node runs out of memory *)
MaxListLength == 8

(* the loop variable v of range: min before the first push, the element    *)
(* last pushed plus step after it                                          *)
LoopVariable(list, min, step) ==
  IF list = << >> THEN min ELSE list[Len(list)] + step

(* the arguments of the range call in progress *)
RangeArgs ==
  IF op = "range(rateMin, rateMax, rateStep)"
  THEN [ min |-> args.rateMin, max |-> args.rateMax, step |-> args.rateStep,
         list |-> ret.value.rates ]
  ELSE [ min |-> args.durationMin, max |-> args.durationMax,
         step |-> args.durationStep, list |-> ret.value.durations ]

InRange ==
  op \in { "range(rateMin, rateMax, rateStep)",
           "range(durationMin, durationMax, durationStep)" }

(* lines 55-62: the six numeric options, defaults filled in *)
ParsedOptions(opts) ==
  [ rateMin |-> toNumber(opts.rateMin, 10),
    rateMax |-> toNumber(opts.rateMax, 15),
    rateStep |-> toNumber(opts.rateStep, 1),
    durationMin |-> toNumber(opts.durationMin, 1),
    durationMax |-> toNumber(opts.durationMax, 3),
    durationStep |-> toNumber(opts.durationStep, 1) ]

(* the script has read its options and enters the first call of range *)
InitGrid ==
  /\ cfg = DefaultConfig
  /\ op = "range(rateMin, rateMax, rateStep)"
  /\ args \in { ParsedOptions(opts) : opts \in GridOptions }
  /\ ret = Returned([ rates |-> << >>, durations |-> << >> ])
  /\ prevRow = NoRow
  /\ server = NoServer

(* one turn of the loop: v <= max, list.push(v), v += step *)
RangePush ==
  /\ InRange
  /\ LoopVariable(RangeArgs.list, RangeArgs.min, RangeArgs.step)
       <= RangeArgs.max
  /\ Len(RangeArgs.list) < MaxListLength
  /\ ret' =
       IF op = "range(rateMin, rateMax, rateStep)"
       THEN [ret EXCEPT !.value.rates =
               Append(@, LoopVariable(@, args.rateMin, args.rateStep))]
       ELSE [ret EXCEPT !.value.durations =
               Append(@, LoopVariable(@, args.durationMin,
                                      args.durationStep))]
  /\ UNCHANGED <<cfg, op, args, prevRow, server>>

(* v > max: range returns the list *)
RangeReturn ==
  /\ InRange
  /\ LoopVariable(RangeArgs.list, RangeArgs.min, RangeArgs.step)
       > RangeArgs.max
  /\ op' = IF op = "range(rateMin, rateMax, rateStep)"
           THEN "range(durationMin, durationMax, durationStep)"
           ELSE "output"
  /\ UNCHANGED <<cfg, args, ret, prevRow, server>>

(* the loop is still running when the list cannot grow any more *)
OutOfMemory ==
  /\ InRange
  /\ LoopVariable(RangeArgs.list, RangeArgs.min, RangeArgs.step)
       <= RangeArgs.max
  /\ Len(RangeArgs.list) = MaxListLength
  /\ op' = "out of memory"
  /\ UNCHANGED <<cfg, args, ret, prevRow, server>>

NextGrid ==
  \/ RangePush
  \/ RangeReturn
  \/ OutOfMemory

SpecGrid == InitGrid /\ [][NextGrid]_vars /\ WF_vars(NextGrid)

(* C30: the parameter-grid generation terminates: for every finite numeric *)
(* rateMin, rateMax, rateStep, durationMin, durationMax and durationStep   *)
(* accepted by toNumber, range(min, max, step) returns a finite list, so   *)
(* the script eventually reaches its table output and series check.        *)
C30_GridTerminates == <>(op = "output")

(* with both steps positive the two lists are finite and the script goes   *)
(* on to its output                                                        *)
GridTerminatesForPositiveSteps ==
  (args.rateStep > 0 /\ args.durationStep > 0) ~> (op = "output")

(* a call of range with min <= max and a step of 0 or less never leaves    *)
(* its loop: it pushes until memory runs out                               *)
NonPositiveStepExhaustsMemory ==
  (InRange /\ RangeArgs.step <= 0 /\ RangeArgs.min <= RangeArgs.max)
    ~> (op = "out of memory")

=============================================================================
